---------------------------- MODULE Spec2Model ----------------------------
(***************************************************************************)
(* Product Application Matrix pipeline (src/core/matrix): the parser's row *)
(* walk, the entity extractor and its name normalization, the product      *)
(* matcher, the relationship builder and the processor that composes them. *)
(*                                                                         *)
(* Python strings are sequences of one-character strings, so that strip,   *)
(* lower, title and the regular-expression substitutions are computed and  *)
(* not assumed.  Each component has its own specification; the variables   *)
(* of the other components stay at their idle values.                      *)
(***************************************************************************)
EXTENDS Integers, Sequences, FiniteSets, TLC

VARIABLES
    df,               \* parser: the raw rows iterated so far (df.iterrows())
    products,         \* parser: _parse_rows' local list `products`
    current_product,  \* parser: <<>> for None, <<r>> for a MatrixRow r
    ppc,              \* parser: "loop" inside the for loop, "done" after return
    nx,               \* normalization: the name given to normalize_name
    n1,               \* normalization: normalize_name(nx)
    n2,               \* normalization: normalize_name(n1)
    npc,              \* normalization: "start", "once", "twice"
    erows,            \* extractor: the rows iterated so far
    epending,         \* extractor: calls still to make for the current row
    ecalls,           \* extractor: the _create_entity_if_new calls made so far
    entities,         \* extractor: entities[type], the lists of Entity values
    seen,             \* extractor: seen[type], the normalized keys met
    duplicates_removed, \* extractor: the counter of extract_entities
    entity_count,     \* extractor: ExtractionResult.entity_count
    epc,              \* extractor: "loop" inside the for loop, "done" after return
    brows,            \* builder: the rows given to build_from_rows
    bi,               \* builder: the number of rows whose iteration is over
    bpending,         \* builder: values of the current row still to resolve
    product_id,       \* builder: the id of the current row's Product entity
    relationships,    \* builder: the list of _build_product_relationships
    relationships_to_create, \* builder: the staged relationships
    entity_id_cache,  \* builder: _entity_id_cache, (type, key) -> id
    stats,            \* builder: _stats
    result,           \* builder: the BuildResult
    resolutions,      \* builder: the _get_or_create_entity calls made so far
    rel_calls,        \* builder: the client.create_relationship calls so far
    bpc,              \* builder: "rows", "row" inside a row, "done"
    scraped_products, \* matcher: the records given to the constructor
    match_threshold,  \* matcher: a fraction
    rapidfuzz,        \* matcher: whether rapidfuzz can be imported
    name_lookup,      \* matcher: _name_lookup
    normalized_lookup, \* matcher: _normalized_lookup
    matrix_product_name, \* matcher: the argument of match
    match_result,     \* matcher: <<>> for None, <<m>> for a ProductMatch m
    report_rows,      \* matcher: the argument of get_match_report
    report_result,    \* matcher: <<>>, <<r>> for a returned MatchReport r
    mpc,              \* matcher: "ready", "matched", "reported"
    matrix_file,      \* processor: the matrix file as the parser finds it
    config,           \* processor: the ProcessorConfig and what it points to
    prows,            \* processor: `rows` of process
    match_report,     \* processor: <<>> for None, <<r>> for a MatchReport r
    extraction_result, \* processor: <<>> before step 4, <<r>> after
    client,           \* processor: "none", "entered", "closed"
    perrors,          \* processor: `errors` of process
    caught,           \* processor: the exception caught by process, if any
    propagated,       \* processor: the exception that reached the caller
    processing_result, \* processor: <<>>, or <<r>> for the returned result
    pstage,           \* processor: the stage reached
    entity_cache,     \* client: _entity_cache, cache key -> entity id
    store,            \* client: the entities of the graph store, by cache key
    ckey,             \* client: the cache key of the running upsert_entity
    cstage,           \* client: "idle", "search", "create"
    attempt,          \* client: `attempt` of the running _request
    attempts,         \* client: the outcomes its attempts have met, as a set
    last_error,       \* client: last_error of the running _request
    request,          \* client: the last _request that ended, if any
    waits,            \* client: the delays the running _request has slept
    tasks,            \* client: the tasks that resolve entities concurrently
    events            \* client: the requests and the ends of the upsert_entity calls

parserVars == <<df, products, current_product, ppc>>

normVars == <<nx, n1, n2, npc>>

extVars == <<erows, epending, ecalls, entities, seen, duplicates_removed,
             entity_count, epc>>

buildVars == <<brows, bi, bpending, product_id, relationships,
               relationships_to_create, entity_id_cache, stats, result,
               resolutions, rel_calls, bpc>>

matchVars == <<scraped_products, match_threshold, rapidfuzz, name_lookup,
               normalized_lookup, matrix_product_name, match_result,
               report_rows, report_result, mpc>>

procVars == <<matrix_file, config, prows, match_report, extraction_result,
              client, perrors, caught, propagated, processing_result, pstage>>

clientVars == <<entity_cache, store, ckey, cstage, attempt, attempts, waits, last_error,
                request, tasks, events>>

vars ==
    <<parserVars, normVars, extVars, buildVars, matchVars, procVars,
      clientVars>>

-----------------------------------------------------------------------------
(* Strings *)

UpperChars == <<"A", "B", "C", "D", "E", "F", "G", "H", "I", "J", "K", "L", "M",
                "N", "O", "P", "Q", "R", "S", "T", "U", "V", "W", "X", "Y", "Z">>

LowerChars == <<"a", "b", "c", "d", "e", "f", "g", "h", "i", "j", "k", "l", "m",
                "n", "o", "p", "q", "r", "s", "t", "u", "v", "w", "x", "y", "z">>

DigitChars == <<"0", "1", "2", "3", "4", "5", "6", "7", "8", "9">>

Range(s) == {s[i] : i \in DOMAIN s}

UpperSet == Range(UpperChars)

LowerSet == Range(LowerChars)

DigitSet == Range(DigitChars)

ToLower == [c \in UpperSet |->
               LowerChars[CHOOSE i \in DOMAIN UpperChars : UpperChars[i] = c]]

ToUpper == [c \in LowerSet |->
               UpperChars[CHOOSE i \in DOMAIN LowerChars : LowerChars[i] = c]]

IsUpperChar(c) == c \in UpperSet

\* U+017F LATIN SMALL LETTER LONG S: lower case, its upper and title case is "S"
LongS == "U+017F"

IsLowerChar(c) == c \in LowerSet \/ c = LongS

IsDigitChar(c) == c \in DigitSet

IsSpaceChar(c) == c \in {" ", "\t"}

\* str.lower() on one character
LowerChar(c) == IF c \in UpperSet THEN ToLower[c] ELSE c

\* str.upper() on one character
UpperChar(c) ==
    IF c \in LowerSet THEN ToUpper[c] ELSE IF c = LongS THEN "S" ELSE c

\* str.lower()
LowerStr(s) == [i \in 1..Len(s) |-> LowerChar(s[i])]

RECURSIVE LStrip(_)
LStrip(s) == IF s # <<>> /\ IsSpaceChar(Head(s)) THEN LStrip(Tail(s)) ELSE s

RECURSIVE RStrip(_)
RStrip(s) ==
    IF s # <<>> /\ IsSpaceChar(s[Len(s)])
    THEN RStrip(SubSeq(s, 1, Len(s) - 1))
    ELSE s

\* str.strip()
Strip(s) == RStrip(LStrip(s))

\* str.upper()
UpperStr(s) == [i \in 1..Len(s) |-> UpperChar(s[i])]

IsCasedChar(c) == IsUpperChar(c) \/ IsLowerChar(c)

\* str.isupper(): at least one cased character and no lower-case one
IsUpperStr(s) ==
    /\ \E i \in DOMAIN s : IsUpperChar(s[i])
    /\ \A i \in DOMAIN s : ~IsLowerChar(s[i])

\* str.title(): a cased character is upper-cased after an uncased one (or at
\* the start) and lower-cased after a cased one
RECURSIVE TitleFrom(_, _)
TitleFrom(s, previous_is_cased) ==
    IF s = <<>> THEN <<>>
    ELSE LET c == Head(s)
         IN  IF IsCasedChar(c)
             THEN <<IF previous_is_cased THEN LowerChar(c) ELSE UpperChar(c)>>
                      \o TitleFrom(Tail(s), TRUE)
             ELSE <<c>> \o TitleFrom(Tail(s), FALSE)

Title(s) == TitleFrom(s, FALSE)

\* re.sub(r"\s+", " ", s)
RECURSIVE CollapseFrom(_, _)
CollapseFrom(s, in_run) ==
    IF s = <<>> THEN <<>>
    ELSE IF IsSpaceChar(Head(s))
    THEN (IF in_run THEN <<>> ELSE <<" ">>) \o CollapseFrom(Tail(s), TRUE)
    ELSE <<Head(s)>> \o CollapseFrom(Tail(s), FALSE)

CollapseSpaces(s) == CollapseFrom(s, FALSE)

\* str.split(): the maximal runs of non-whitespace characters
RECURSIVE SplitFrom(_, _)
SplitFrom(s, word) ==
    IF s = <<>> THEN (IF word = <<>> THEN <<>> ELSE <<word>>)
    ELSE IF IsSpaceChar(Head(s))
    THEN (IF word = <<>> THEN <<>> ELSE <<word>>) \o SplitFrom(Tail(s), <<>>)
    ELSE SplitFrom(Tail(s), Append(word, Head(s)))

Split(s) == SplitFrom(s, <<>>)

\* " ".join(words)
RECURSIVE Join(_)
Join(words) ==
    IF words = <<>> THEN <<>>
    ELSE IF Len(words) = 1 THEN words[1]
    ELSE words[1] \o <<" ">> \o Join(Tail(words))

\* x in list
InList(x, l) == \E i \in DOMAIN l : l[i] = x

-----------------------------------------------------------------------------
(* Parser: MatrixParser._parse_rows, _add_row_values, _clean_value *)

\* A cell that pandas read as missing (pd.isna(value) is true)
NaN == <<"<NaN>">>

\* Python's None as the result of _clean_value
None == <<"<None>">>

\* Truth value of an Optional[str]: None and "" are false
Truthy(v) == v # None /\ v # <<>>

NULL_VALUES ==
    { <<"n", "o", "t", " ", "s", "t", "a", "t", "e", "d">>,
      <<"n", "/", "a">>,
      <<"n", "a">>,
      <<"n", "o", "n", "e">>,
      <<"-">>,
      <<>> }

HeaderLabel == <<"p", "r", "o", "d", "u", "c", "t">>

\* The six list fields of MatrixRow, in the order _add_row_values fills them
ListFields == <<"benefits", "surfaces", "incompatible_surfaces",
                "soilage_types", "incompatible_soilage", "locations">>

FieldNames == Range(ListFields)

\* MatrixRow(product_name=name)
MatrixRow(name) ==
    [product_name |-> name,
     benefits |-> <<>>,
     surfaces |-> <<>>,
     incompatible_surfaces |-> <<>>,
     soilage_types |-> <<>>,
     incompatible_soilage |-> <<>>,
     locations |-> <<>>]

\* _clean_value: NaN, then strip, then the null values
clean_value(value) ==
    IF value = NaN THEN None
    ELSE LET v == Strip(value)
         IN  IF LowerStr(v) \in NULL_VALUES THEN None ELSE v

\* A variant without the `not in` test
AddValueNoDedup(product, row, f) ==
    LET value == clean_value(row[f])
    IN  IF Truthy(value)
        THEN [product EXCEPT ![f] = Append(@, value)]
        ELSE product

\* One block of _add_row_values: value = clean(row.get(f)); append if new
AddValue(product, row, f) ==
    LET value == clean_value(row[f])
    IN  IF Truthy(value) /\ ~InList(value, product[f])
        THEN [product EXCEPT ![f] = Append(@, value)]
        ELSE product

add_row_values(product, row) ==
    LET p1 == AddValue(product, row, "benefits")
        p2 == AddValue(p1, row, "surfaces")
        p3 == AddValue(p2, row, "incompatible_surfaces")
        p4 == AddValue(p3, row, "soilage_types")
        p5 == AddValue(p4, row, "incompatible_soilage")
        p6 == AddValue(p5, row, "locations")
    IN  p6

\* A variant that starts a new MatrixRow on every row that carries values
ParseRowStepSplit(st, row) ==
    LET product_name == clean_value(row.product_name)
        name == IF Truthy(product_name) THEN product_name ELSE <<>>
    IN  IF Truthy(product_name) /\ LowerStr(product_name) = HeaderLabel
        THEN st
        ELSE [products |-> st.products \o st.current_product,
              current_product |-> <<add_row_values(MatrixRow(name), row)>>]

\* A variant that merges a repeated product name into the current MatrixRow
ParseRowStepMerge(st, row) ==
    LET product_name == clean_value(row.product_name)
    IN  IF Truthy(product_name) /\ LowerStr(product_name) = HeaderLabel
        THEN st
        ELSE IF Truthy(product_name)
                /\ ~(st.current_product # <<>>
                     /\ st.current_product[1].product_name = product_name)
        THEN [products |-> st.products \o st.current_product,
              current_product |->
                  <<add_row_values(MatrixRow(product_name), row)>>]
        ELSE IF st.current_product # <<>>
        THEN [st EXCEPT !.current_product =
                  <<add_row_values(st.current_product[1], row)>>]
        ELSE st

\* A variant whose header test compares the cell with the label as written
ParseRowStepExactLabel(st, row) ==
    LET product_name == clean_value(row.product_name)
    IN  IF Truthy(product_name) /\ product_name = HeaderLabel
        THEN st
        ELSE IF Truthy(product_name)
        THEN [products |-> st.products \o st.current_product,
              current_product |->
                  <<add_row_values(MatrixRow(product_name), row)>>]
        ELSE IF st.current_product # <<>>
        THEN [st EXCEPT !.current_product =
                  <<add_row_values(st.current_product[1], row)>>]
        ELSE st

\* The body of the for loop of _parse_rows on one raw row
ParseRowStep(st, row) ==
    LET product_name == clean_value(row.product_name)
    IN  IF Truthy(product_name) /\ LowerStr(product_name) = HeaderLabel
        THEN st
        ELSE IF Truthy(product_name)
        THEN [products |-> st.products \o st.current_product,
              current_product |->
                  <<add_row_values(MatrixRow(product_name), row)>>]
        ELSE IF st.current_product # <<>>
        THEN [st EXCEPT !.current_product =
                  <<add_row_values(st.current_product[1], row)>>]
        ELSE st

\* After the loop: "Don't forget the last product"
ParseFlush(st) == st.products \o st.current_product

\* _parse_rows on a whole table
RECURSIVE ParseFold(_, _)
ParseFold(st, rows) ==
    IF rows = <<>> THEN st ELSE ParseFold(ParseRowStep(st, Head(rows)), Tail(rows))

parse_rows(rows) ==
    ParseFlush(ParseFold([products |-> <<>>, current_product |-> <<>>], rows))

(* Raw rows of the model *)

MaxRawRows == 3

Str3D == <<"3", "D">>
StrAW == <<"A", "W">>
StrVinyl == <<"V", "i", "n", "y", "l">>
StrTimber == <<"T", "i", "m", "b", "e", "r">>

\* Product-name cells: missing, blank, two names, a repeated header label
ProductCells ==
    { NaN,
      <<" ">>,
      Str3D,
      StrAW \o <<" ">>,
      <<"P", "r", "o", "d", "u", "c", "t">> }

EmptyCells == [f \in FieldNames |-> NaN]

\* The cells of the six list columns of one raw row: all missing, the same
\* value in every column, and a row of padded, placeholder and missing cells
FieldVectors ==
    { EmptyCells,
      [f \in FieldNames |-> StrTimber],
      [EmptyCells EXCEPT !["surfaces"] = <<" ">> \o StrVinyl \o <<" ">>,
                         !["soilage_types"] = StrTimber,
                         !["benefits"] = <<"N", "/", "A">>,
                         !["locations"] = <<"-", " ">>] }

RawRow(p, fv) ==
    [c \in FieldNames \cup {"product_name"} |->
        IF c = "product_name" THEN p ELSE fv[c]]

RawRows == {RawRow(p, fv) : p \in ProductCells, fv \in FieldVectors}

ParserStart ==
    /\ df = <<>>
    /\ products = <<>>
    /\ current_product = <<>>
    /\ ppc = "loop"

\* One iteration of `for _, row in df.iterrows()`
ParseRow ==
    /\ ppc = "loop"
    /\ Len(df) < MaxRawRows
    /\ \E row \in RawRows :
        LET st == ParseRowStep([products |-> products,
                                current_product |-> current_product], row)
        IN  /\ df' = Append(df, row)
            /\ products' = st.products
            /\ current_product' = st.current_product
    /\ UNCHANGED <<ppc, normVars, clientVars, extVars, buildVars, matchVars, procVars>>

\* The loop is over: flush the last product and return
ParseReturn ==
    /\ ppc = "loop"
    /\ products' = ParseFlush([products |-> products,
                               current_product |-> current_product])
    /\ ppc' = "done"
    /\ UNCHANGED <<df, current_product, normVars, clientVars, extVars, buildVars, matchVars, procVars>>


(* Properties of the parser *)

IsHeaderRow(row) ==
    LET n == clean_value(row.product_name)
    IN  Truthy(n) /\ LowerStr(n) = HeaderLabel

\* A raw row with a populated, non-header product-name cell
IsProductRow(row) ==
    LET n == clean_value(row.product_name)
    IN  Truthy(n) /\ LowerStr(n) # HeaderLabel

\* A raw row with an empty (cleaned) product-name cell
IsContinuationRow(row) == ~Truthy(clean_value(row.product_name))

ProductRowCount(rows) == Cardinality({i \in DOMAIN rows : IsProductRow(rows[i])})

\* The number of product rows among df[1..i]: the product row i belongs to
GroupOf(i) == Cardinality({j \in 1..i : IsProductRow(df[j])})

\* The MatrixRow values started so far, the current one last
Started == IF ppc = "done" THEN products ELSE products \o current_product

\* The cells of the raw rows after _clean_value
CleanedRows ==
    [n \in DOMAIN df |-> [c \in DOMAIN df[n] |-> clean_value(df[n][c])]]

\* For cleaned rows cl: whether row n is a header row, and the product row
\* it belongs to (the number of product rows among the first n rows)
RowGroups(cl) ==
    [n \in DOMAIN cl |->
        [header |-> /\ Truthy(cl[n].product_name)
                    /\ LowerStr(cl[n].product_name) = HeaderLabel,
         group |-> Cardinality({j \in 1..n :
                       /\ Truthy(cl[j].product_name)
                       /\ LowerStr(cl[j].product_name) # HeaderLabel})]]

\* The cleaned, non-null values of column f in the first n raw rows that
\* belong to product k, in order
RECURSIVE GroupValues(_, _, _, _, _)
GroupValues(cl, rg, n, k, f) ==
    IF n = 0 THEN <<>>
    ELSE IF rg[n].group = k /\ ~rg[n].header /\ Truthy(cl[n][f])
    THEN Append(GroupValues(cl, rg, n - 1, k, f), cl[n][f])
    ELSE GroupValues(cl, rg, n - 1, k, f)

RECURSIVE FirstOccurrences(_)
FirstOccurrences(s) ==
    IF s = <<>> THEN <<>>
    ELSE LET init == FirstOccurrences(SubSeq(s, 1, Len(s) - 1))
             x == s[Len(s)]
         IN  IF InList(x, init) THEN init ELSE Append(init, x)

HasDuplicate(s) == \E i, j \in DOMAIN s : i # j /\ s[i] = s[j]

\* C4: every row with an empty product-name cell that comes after a product
\* row adds its values to the most recently started MatrixRow and starts no
\* MatrixRow: the number of MatrixRow values started, and returned, equals the
\* number of raw rows with a populated, non-header product-name cell.
C4_ContinuationRowsExtendCurrent ==
    /\ Len(Started) = ProductRowCount(df)
    /\ \A i \in DOMAIN df :
        (IsContinuationRow(df[i]) /\ GroupOf(i) > 0) =>
            \A f \in FieldNames :
                Truthy(clean_value(df[i][f])) =>
                    InList(clean_value(df[i][f]), Started[GroupOf(i)][f])
    /\ (ppc = "done") => (Len(products) = ProductRowCount(df))

\* C4 witness: a returned list of two MatrixRow values, the first of which
\* took a value from a continuation row
C4_Witness ==
    /\ ppc = "done"
    /\ Len(products) = 2
    /\ \E i \in DOMAIN df :
        /\ IsContinuationRow(df[i])
        /\ GroupOf(i) = 1
        /\ Truthy(clean_value(df[i].surfaces))
        /\ i > 1
        /\ clean_value(df[i].surfaces) # clean_value(df[i - 1].surfaces)
        /\ InList(clean_value(df[i].surfaces), products[1].surfaces)

C6_ListsOrderedUnique ==
    \A cl \in {CleanedRows} : \A rg \in {RowGroups(cl)} :
    \A k \in DOMAIN Started : \A f \in FieldNames :
    \A l \in {Started[k][f]} :
        /\ ~HasDuplicate(l)
        /\ l = FirstOccurrences(GroupValues(cl, rg, Len(df), k, f))
        /\ \A i \in DOMAIN l :
            /\ l[i] # None
            /\ l[i] # NaN
            /\ Strip(LowerStr(l[i])) \notin NULL_VALUES

\* C6 witness: a value met twice in the raw rows of one product and kept once,
\* and present in the list of another product too
C6_Witness ==
    /\ ppc = "done"
    /\ Len(products) = 2
    /\ HasDuplicate(GroupValues(CleanedRows, RowGroups(CleanedRows), Len(df), 1,
                                "soilage_types"))
    /\ Len(products[1].soilage_types) = 1
    /\ InList(products[1].soilage_types[1], products[2].soilage_types)

NotHeaderRow(row) == ~IsHeaderRow(row)

\* C21: a raw row whose cleaned product-name cell equals "product" without
\* regard to case is skipped entirely: the MatrixRow values built from a table
\* are those built from the table with its header rows removed, so such a row
\* starts no MatrixRow, gives no cell value to any MatrixRow and leaves the
\* current product in place for the continuation rows that follow it.
C21_HeaderRowSkipped ==
    \A st \in {ParseFold([products |-> <<>>, current_product |-> <<>>],
                         SelectSeq(df, NotHeaderRow))} :
        /\ ppc = "loop" => /\ products = st.products
                           /\ current_product = st.current_product
        /\ ppc = "done" => products = ParseFlush(st)
        /\ \A k \in DOMAIN Started :
             LowerStr(Started[k].product_name) # HeaderLabel

\* C21 witness: a product row, a header row that carries values, and a
\* continuation row: one MatrixRow is returned, it holds the value of the
\* continuation row and none of the header row
C21_Witness ==
    /\ ppc = "done"
    /\ Len(df) = 3
    /\ IsProductRow(df[1])
    /\ IsHeaderRow(df[2])
    /\ clean_value(df[2].benefits) = StrTimber
    /\ IsContinuationRow(df[3])
    /\ clean_value(df[3].surfaces) = StrVinyl
    /\ Len(products) = 1
    /\ products[1].surfaces = <<StrVinyl>>
    /\ products[1].benefits = <<>>

-----------------------------------------------------------------------------
(* EntityExtractor: synonyms, normalize_name, get_normalized_key *)

\* EntityExtractor(): the default of the constructor's case_sensitive
case_sensitive == FALSE

\* EntityExtractor.DEFAULT_SYNONYMS, in insertion order
DEFAULT_SYNONYMS ==
    <<
       [canonical |-> <<"t", "i", "m", "b", "e", "r">>,
        variations |->
          << <<"w", "o", "o", "d">>,
             <<"w", "o", "o", "d", "e", "n">>,
             <<"h", "a", "r", "d", "w", "o", "o", "d">>,
             <<"s", "o", "f", "t", "w", "o", "o", "d">>,
             <<"w", "o", "o", "d", "e", "n", " ", "f", "l", "o", "o", "r", "s">> >>],
       [canonical |-> <<"v", "i", "n", "y", "l">>,
        variations |->
          << <<"v", "i", "n", "y", "l", " ", "f", "l", "o", "o", "r", "i", "n", "g">>,
             <<"v", "i", "n", "y", "l", " ", "f", "l", "o", "o", "r", "s">>,
             <<"v", "i", "n", "y", "l", " ", "t", "i", "l", "e", "s">> >>],
       [canonical |-> <<"c", "e", "r", "a", "m", "i", "c">>,
        variations |->
          << <<"c", "e", "r", "a", "m", "i", "c", " ", "t", "i", "l", "e", "s">>,
             <<"c", "e", "r", "a", "m", "i", "c", "s">> >>],
       [canonical |-> <<"c", "o", "n", "c", "r", "e", "t", "e">>,
        variations |->
          << <<"c", "e", "m", "e", "n", "t">>,
             <<"c", "e", "m", "e", "n", "t", "i", "t", "i", "o", "u", "s">>,
             <<"c", "o", "n", "c", "r", "e", "t", "e", " ", "f", "l", "o", "o", "r", "s">> >>],
       [canonical |-> <<"t", "e", "r", "r", "a", "z", "z", "o">>,
        variations |->
          << <<"s", "e", "a", "l", "e", "d", " ", "t", "e", "r", "r", "a", "z", "z", "o">> >>],
       [canonical |-> <<"m", "a", "r", "b", "l", "e">>,
        variations |->
          << <<"s", "e", "a", "l", "e", "d", " ", "m", "a", "r", "b", "l", "e">>,
             <<"m", "a", "r", "b", "l", "e", " ", "f", "l", "o", "o", "r", "s">> >>],
       [canonical |-> <<"p", "o", "r", "c", "e", "l", "a", "i", "n">>,
        variations |->
          << <<"p", "o", "r", "c", "e", "l", "a", "i", "n", " ", "t", "i", "l", "e", "s">>,
             <<"n", "o", "n", "-", "p", "o", "r", "o", "u", "s", " ", "p", "o", "r", "c", "e", "l", "a", "i", "n", " ", "t", "i", "l", "e", "s">> >>],
       [canonical |-> <<"l", "i", "n", "o", "l", "e", "u", "m">>,
        variations |->
          << <<"l", "i", "n", "o">> >>],
       [canonical |-> <<"h", "o", "s", "p", "i", "t", "a", "l", "s">>,
        variations |->
          << <<"h", "o", "s", "p", "i", "t", "a", "l">>,
             <<"m", "e", "d", "i", "c", "a", "l", " ", "f", "a", "c", "i", "l", "i", "t", "i", "e", "s">>,
             <<"h", "e", "a", "l", "t", "h", "c", "a", "r", "e", " ", "f", "a", "c", "i", "l", "i", "t", "i", "e", "s">> >>],
       [canonical |-> <<"k", "i", "t", "c", "h", "e", "n", "s">>,
        variations |->
          << <<"k", "i", "t", "c", "h", "e", "n">>,
             <<"c", "o", "m", "m", "e", "r", "c", "i", "a", "l", " ", "k", "i", "t", "c", "h", "e", "n", "s">> >>],
       [canonical |-> <<"f", "o", "o", "d", " ", "p", "r", "o", "c", "e", "s", "s", "i", "n", "g">>,
        variations |->
          << <<"f", "o", "o", "d", " ", "p", "r", "o", "c", "e", "s", "s", "i", "n", "g", " ", "a", "r", "e", "a", "s">>,
             <<"f", "o", "o", "d", " ", "p", "r", "o", "c", "e", "s", "s", "i", "n", "g", " ", "e", "q", "u", "i", "p", "m", "e", "n", "t">>,
             <<"f", "o", "o", "d", " ", "p", "r", "o", "c", "e", "s", "s", "i", "n", "g", " ", "s", "u", "r", "f", "a", "c", "e", "s">>,
             <<"f", "o", "o", "d", "-", "p", "r", "o", "c", "e", "s", "s", "i", "n", "g", " ", "e", "q", "u", "i", "p", "m", "e", "n", "t">> >>],
       [canonical |-> <<"b", "a", "t", "h", "r", "o", "o", "m", "s">>,
        variations |->
          << <<"b", "a", "t", "h", "r", "o", "o", "m">>,
             <<"w", "a", "s", "h", "r", "o", "o", "m", "s">>,
             <<"r", "e", "s", "t", "r", "o", "o", "m", "s">> >>],
       [canonical |-> <<"s", "c", "h", "o", "o", "l", "s">>,
        variations |->
          << <<"s", "c", "h", "o", "o", "l">>,
             <<"e", "d", "u", "c", "a", "t", "i", "o", "n", "a", "l", " ", "f", "a", "c", "i", "l", "i", "t", "i", "e", "s">> >>]
    >>

\* _normalize_for_lookup
normalize_for_lookup(name) ==
    Strip(IF case_sensitive THEN name ELSE LowerStr(name))

\* The assignments of _build_synonym_lookup, in order: <<key, canonical>>
RECURSIVE SynonymAssignments(_)
SynonymAssignments(syns) ==
    IF syns = <<>> THEN <<>>
    ELSE LET e == Head(syns)
         IN  <<<<normalize_for_lookup(e.canonical), e.canonical>>>>
             \o [i \in DOMAIN e.variations |->
                    <<normalize_for_lookup(e.variations[i]), e.canonical>>]
             \o SynonymAssignments(Tail(syns))

\* A reverse lookup in which a canonical name maps to its first variation
build_synonym_lookup_swapped(syns) ==
    LET assigned == SynonymAssignments(syns)
        first(c) == (CHOOSE i \in DOMAIN syns : syns[i].canonical = c).variations[1]
    IN  [k \in {assigned[i][1] : i \in DOMAIN assigned} |->
            LET last == CHOOSE i \in DOMAIN assigned :
                            /\ assigned[i][1] = k
                            /\ \A j \in DOMAIN assigned :
                                   assigned[j][1] = k => j <= i
                c == assigned[last][2]
            IN  IF k = normalize_for_lookup(c) THEN first(c) ELSE c]

\* _build_synonym_lookup: the dict after all assignments, the last one wins
build_synonym_lookup(syns) ==
    LET assigned == SynonymAssignments(syns)
    IN  [k \in {assigned[i][1] : i \in DOMAIN assigned} |->
            LET last == CHOOSE i \in DOMAIN assigned :
                            /\ assigned[i][1] = k
                            /\ \A j \in DOMAIN assigned :
                                   assigned[j][1] = k => j <= i
            IN  assigned[last][2]]

\* self._synonym_lookup of EntityExtractor()
synonym_lookup == build_synonym_lookup(DEFAULT_SYNONYMS)

\* The word loop of normalize_name: keep short all-caps words, title the rest
TitleWords(words) ==
    [i \in DOMAIN words |->
        IF IsUpperStr(words[i]) /\ Len(words[i]) <= 4
        THEN words[i]
        ELSE Title(words[i])]

normalize_name(name) ==
    IF name = <<>> THEN <<>>
    ELSE LET stripped == CollapseSpaces(Strip(name))
             lookup_key == normalize_for_lookup(stripped)
             normalized == IF lookup_key \in DOMAIN synonym_lookup
                           THEN synonym_lookup[lookup_key]
                           ELSE stripped
         IN  IF ~case_sensitive
             THEN Join(TitleWords(Split(normalized)))
             ELSE normalized

get_normalized_key(name) == Strip(LowerStr(normalize_name(name)))

(* Names given to normalize_name in the model *)

StrSchool == <<"s", "c", "h", "o", "o", "l">>

\* Synonym variants, canonical names, acronyms, mixed-case words
BaseNames ==
    { <<"w", "o", "o", "d">>,
      StrTimber,
      StrVinyl,
      <<"f", "o", "o", "d", " ", "p", "r", "o", "c", "e", "s", "s", "i", "n", "g">>,
      <<"f", "o", "o", "d", "-", "p", "r", "o", "c", "e", "s", "s", "i", "n", "g",
        " ", "e", "q", "u", "i", "p", "m", "e", "n", "t">>,
      <<"l", "i", "n", "o">>,
      StrSchool,
      <<"P", "V", "C">>,
      <<"H", "A", "C", "C", "P">>,
      <<"p", "H", " ", "n", "e", "u", "t", "r", "a", "l">>,
      <<"3", "D", "-", "G", "L", "O", "S", "S">>,
      <<"a", "1", "b">>,
      <<"o", "'", "n", "e", "i", "l">>,
      <<"S", "t", "a", "i", "n", "l", "e", "s", "s", " ", "s", "t", "e", "e", "l">>,
      <<>> }

\* The same names with U+017F for every "s"
WithLongS(s) == [i \in DOMAIN s |-> IF s[i] = "s" THEN LongS ELSE s[i]]

Pad(s) == <<" ">> \o s \o <<"\t", " ">>

RECURSIVE Widen(_)
Widen(s) ==
    IF s = <<>> THEN <<>>
    ELSE (IF Head(s) = " " THEN <<" ", "\t">> ELSE <<Head(s)>>) \o Widen(Tail(s))

AsciiNames ==
    UNION {{b, UpperStr(b), LowerStr(b), Title(b), Pad(b), Widen(b),
            Pad(UpperStr(b))} : b \in BaseNames}

NameInputs == AsciiNames \cup {WithLongS(StrSchool), Pad(WithLongS(StrSchool))}

NormStart ==
    /\ nx \in NameInputs
    /\ n1 = <<>>
    /\ n2 = <<>>
    /\ npc = "start"

NormIdle ==
    /\ nx = <<>>
    /\ n1 = <<>>
    /\ n2 = <<>>
    /\ npc = "idle"

NormalizeOnce ==
    /\ npc = "start"
    /\ n1' = normalize_name(nx)
    /\ npc' = "once"
    /\ UNCHANGED <<nx, n2, parserVars, clientVars, extVars, buildVars, matchVars, procVars>>

NormalizeTwice ==
    /\ npc = "once"
    /\ n2' = normalize_name(n1)
    /\ npc' = "twice"
    /\ UNCHANGED <<nx, n1, parserVars, clientVars, extVars, buildVars, matchVars, procVars>>

(* Properties of normalize_name *)

\* C9: normalize_name is idempotent: normalize_name(normalize_name(x)) equals
\* normalize_name(x) for every input string x.
C9_NormalizeIdempotent == (npc = "twice") => (n2 = n1)

\* C9, ASCII inputs only: the names without U+017F normalize idempotently
C9_AsciiIdempotent == (npc = "twice" /\ nx \in AsciiNames) => (n2 = n1)

\* C9, the failing input: a long-s spelling of a synonym variant
C9_LongSReached ==
    /\ npc = "twice"
    /\ nx = WithLongS(StrSchool)
    /\ n1 = Title(StrSchool)
    /\ n2 # n1

-----------------------------------------------------------------------------
(* EntityExtractor.extract_entities, _create_entity_if_new, _is_discontinued *)

\* EntityType
EntityTypes == {"Product", "Surface", "Soilage", "Location", "Benefit", "Category"}

\* The keys of the dict `entities` of extract_entities
ExtractedTypes == {"Product", "Surface", "Soilage", "Location", "Benefit"}

\* config.matrix_config.DISCONTINUED_PRODUCTS
DISCONTINUED_PRODUCTS ==
    << <<"A", "E", "R", "I", "A", "L">>,
       <<"C", "I", "P", " ", "A", "L", "K", "A", "L", "I", "-", "0", "7">>,
       <<"C", "I", "T", "R", "U", "S", " ", "S", "P", "O", "T", "T", "E", "R">>,
       <<"F", "B", "-", "4", "2">>,
       <<"H", "O", "O", "K", " ", "A", "C", "I", "D">>,
       <<"H", "O", "O", "K", " ", "O", "I", "L", " ", "C", "O", "N", "C", "E", "N", "T", "R", "A", "T", "E">>,
       <<"L", "C", "D", "-", "1", "1">>,
       <<"P", "O", "W", "E", "R", "D", "E", "T", " ", "E", "C", "O">>,
       <<"S", "A", "T", "I", "N", " ", "F", "I", "N", "I", "S", "H", " ", "S", "E", "A", "L", "E", "R">>,
       <<"S", "O", "A", "K", " ", "T", "A", "N", "K", " ", "P", "O", "W", "D", "E", "R", " ", "D", "E", "T", "E", "R", "G", "E", "N", "T", " ", "L", "F", "-", "3">>,
       <<"S", "P", "I", "C", "E">>,
       <<"V", "A", "P", "O", "R", "-", "Q">>,
       <<"V", "I", "G", "O", "U", "R">> >>

\* _is_discontinued
is_discontinued(product_name) ==
    \E i \in DOMAIN DISCONTINUED_PRODUCTS :
        UpperStr(Strip(product_name)) = UpperStr(DISCONTINUED_PRODUCTS[i])

\* A variant that looks the display name up among the seen keys
create_entity_if_new_by_display(entity_type, name, seen_) ==
    LET normalized_name == normalize_name(name)
        normalized_key == get_normalized_key(name)
    IN  IF normalized_name \in seen_[entity_type]
        THEN [entity |-> <<>>, is_dup |-> TRUE, seen |-> seen_]
        ELSE [entity |->
                <<[entity_type |-> entity_type,
                   name |-> normalized_name,
                   normalized_name |-> normalized_key,
                   properties |->
                       IF entity_type = "Product" /\ is_discontinued(name)
                       THEN {"is_discontinued"} ELSE {},
                   source |-> "application_matrix"]>>,
              is_dup |-> FALSE,
              seen |-> [seen_ EXCEPT ![entity_type] = @ \cup {normalized_key}]]

\* _create_entity_if_new: (entity or None, was_duplicate), and `seen` after it
create_entity_if_new(entity_type, name, seen_) ==
    LET normalized_name == normalize_name(name)
        normalized_key == get_normalized_key(name)
    IN  IF normalized_key \in seen_[entity_type]
        THEN [entity |-> <<>>, is_dup |-> TRUE, seen |-> seen_]
        ELSE [entity |->
                <<[entity_type |-> entity_type,
                   name |-> normalized_name,
                   normalized_name |-> normalized_key,
                   properties |->
                       IF entity_type = "Product" /\ is_discontinued(name)
                       THEN {"is_discontinued"} ELSE {},
                   source |-> "application_matrix"]>>,
              is_dup |-> FALSE,
              seen |-> [seen_ EXCEPT ![entity_type] = @ \cup {normalized_key}]]

\* The list fields in the order extract_entities walks them, with their type
ExtractOrder ==
    << [field |-> "surfaces", type |-> "Surface"],
       [field |-> "incompatible_surfaces", type |-> "Surface"],
       [field |-> "soilage_types", type |-> "Soilage"],
       [field |-> "incompatible_soilage", type |-> "Soilage"],
       [field |-> "locations", type |-> "Location"],
       [field |-> "benefits", type |-> "Benefit"] >>

\* The calls the loop body makes for the list fields of one row, in order
RECURSIVE FieldCalls(_, _)
FieldCalls(row, k) ==
    IF k > Len(ExtractOrder) THEN <<>>
    ELSE [i \in DOMAIN row[ExtractOrder[k].field] |->
             [type |-> ExtractOrder[k].type,
              name |-> row[ExtractOrder[k].field][i]]]
         \o FieldCalls(row, k + 1)

\* A variant that counts a duplicate only when it is a product
ExtractCallProductsOnly(st, call) ==
    LET r == create_entity_if_new(call.type, call.name, st.seen)
    IN  [entities |-> IF r.entity # <<>>
                      THEN [st.entities EXCEPT ![call.type] = @ \o r.entity]
                      ELSE st.entities,
         seen |-> r.seen,
         duplicates_removed |->
             IF r.is_dup /\ call.type = "Product"
             THEN st.duplicates_removed + 1
             ELSE st.duplicates_removed]

\* One call of _create_entity_if_new and the two ifs that follow it
ExtractCall(st, call) ==
    LET r == create_entity_if_new(call.type, call.name, st.seen)
    IN  [entities |-> IF r.entity # <<>>
                      THEN [st.entities EXCEPT ![call.type] = @ \o r.entity]
                      ELSE st.entities,
         seen |-> r.seen,
         duplicates_removed |->
             IF r.is_dup THEN st.duplicates_removed + 1
             ELSE st.duplicates_removed]

RECURSIVE SumLen(_, _)
SumLen(f, S) ==
    IF S = {} THEN 0
    ELSE LET x == CHOOSE y \in S : TRUE
         IN  Len(f[x]) + SumLen(f, S \ {x})

\* A variant of the sum below that leaves the products out
total_entities_without_products(ents) == SumLen(ents, DOMAIN ents \ {"Product"})

\* sum(len(e) for e in entities.values())
total_entities(ents) == SumLen(ents, DOMAIN ents)

RECURSIVE ExtractFold(_, _)
ExtractFold(st, calls) ==
    IF calls = <<>> THEN st
    ELSE ExtractFold(ExtractCall(st, Head(calls)), Tail(calls))

RowCalls(row) ==
    <<[type |-> "Product", name |-> row.product_name]>> \o FieldCalls(row, 1)

RECURSIVE AllCalls(_)
AllCalls(rows) ==
    IF rows = <<>> THEN <<>> ELSE RowCalls(Head(rows)) \o AllCalls(Tail(rows))

ExtractStart ==
    [entities |-> [t \in ExtractedTypes |-> <<>>],
     seen |-> [t \in EntityTypes |-> {}],
     duplicates_removed |-> 0]

\* extract_entities on a whole row list: the ExtractionResult
extract_entities(rows) ==
    LET st == ExtractFold(ExtractStart, AllCalls(rows))
    IN  [entities |-> st.entities,
         entity_count |-> total_entities(st.entities),
         duplicates_removed |-> st.duplicates_removed]

(* MatrixRow values given to the extractor and the builder *)

MaxExtRows == 3

StrWood == <<"w", "o", "o", "d">>
StrKitchen == <<"K", "i", "t", "c", "h", "e", "n">>
StrKitchens == <<"k", "i", "t", "c", "h", "e", "n", "s">>
StrGrease == <<"G", "r", "e", "a", "s", "e">>
StrShiny == <<"S", "h", "i", "n", "y">>
StrSpice == <<"S", "p", "i", "c", "e">>

\* Rows as the parser returns them: cleaned names, each list without repeats
MatrixRows ==
    { [MatrixRow(Str3D) EXCEPT !.surfaces = <<StrVinyl, StrWood>>,
                               !.incompatible_surfaces = <<StrTimber>>,
                               !.benefits = <<StrShiny>>],
      [MatrixRow(StrAW) EXCEPT !.surfaces = <<LowerStr(StrVinyl)>>,
                               !.soilage_types = <<StrGrease>>,
                               !.incompatible_soilage = <<StrGrease>>],
      [MatrixRow(Str3D) EXCEPT !.locations = <<StrKitchen, StrKitchens>>],
      [MatrixRow(StrSpice) EXCEPT !.locations = <<StrKitchen>>,
                                  !.benefits = <<StrShiny, StrVinyl>>],
      MatrixRow(UpperStr(StrAW)) }

ExtStart ==
    /\ erows = <<>>
    /\ epending = <<>>
    /\ ecalls = <<>>
    /\ entities = ExtractStart.entities
    /\ seen = ExtractStart.seen
    /\ duplicates_removed = 0
    /\ entity_count = 0
    /\ epc = "loop"

ExtState == [entities |-> entities, seen |-> seen,
             duplicates_removed |-> duplicates_removed]

\* `for row in rows`: the next row and the call for its product name
ExtractRow ==
    /\ epc = "loop"
    /\ epending = <<>>
    /\ Len(erows) < MaxExtRows
    /\ \E row \in MatrixRows :
        \E call \in {RowCalls(row)[1]} : \E st \in {ExtractCall(ExtState, call)} :
            /\ erows' = Append(erows, row)
            /\ epending' = FieldCalls(row, 1)
            /\ ecalls' = Append(ecalls, call)
            /\ entities' = st.entities
            /\ seen' = st.seen
            /\ duplicates_removed' = st.duplicates_removed
    /\ UNCHANGED <<entity_count, epc, parserVars, normVars, clientVars, buildVars, matchVars, procVars>>

\* The next value of a list field of the current row
ExtractValue ==
    /\ epc = "loop"
    /\ epending # <<>>
    /\ \E st \in {ExtractCall(ExtState, Head(epending))} :
           /\ entities' = st.entities
           /\ seen' = st.seen
           /\ duplicates_removed' = st.duplicates_removed
    /\ ecalls' = Append(ecalls, Head(epending))
    /\ epending' = Tail(epending)
    /\ UNCHANGED <<erows, entity_count, epc, parserVars, normVars, clientVars, buildVars, matchVars, procVars>>

\* After the loop: count the entities and return the ExtractionResult
ExtractReturn ==
    /\ epc = "loop"
    /\ epending = <<>>
    /\ entity_count' = total_entities(entities)
    /\ epc' = "done"
    /\ UNCHANGED <<erows, epending, ecalls, entities, seen, duplicates_removed,
                   parserVars, normVars, clientVars, buildVars, matchVars, procVars>>

(* Properties of the extractor *)

CallKey(call) == <<call.type, get_normalized_key(call.name)>>

\* The calls whose (type, key) was met by an earlier call of the pass
Collisions == {i \in DOMAIN ecalls :
                  \E j \in 1..(i - 1) : CallKey(ecalls[j]) = CallKey(ecalls[i])}

EntitiesWithKey(k) ==
    IF k[1] \in DOMAIN entities
    THEN {i \in DOMAIN entities[k[1]] : entities[k[1]][i].normalized_name = k[2]}
    ELSE {}

\* C7: in the result of one extract_entities pass no two Entity values of the
\* same type have the same normalized_name, also when the value occurs in
\* several rows or in both the compatible and the incompatible list.
C7_EntityKeyUnique ==
    \A t \in DOMAIN entities : \A i, j \in DOMAIN entities[t] :
        /\ entities[t][i].entity_type = t
        /\ (i # j) =>
               entities[t][i].normalized_name # entities[t][j].normalized_name

\* C7 witness: a surface met as compatible, by a synonym and as incompatible
\* in one row, and again in the next row, is one Surface entity
C7_Witness ==
    /\ epc = "done"
    /\ Len(erows) = 2
    /\ StrWood \in Range(erows[1].surfaces)
    /\ StrTimber \in Range(erows[1].incompatible_surfaces)
    /\ LowerStr(StrVinyl) \in Range(erows[2].surfaces)
    /\ Len(entities["Surface"]) = 2

\* C8: a value whose normalized key was already met for its entity type in the
\* pass creates no Entity and adds exactly one to duplicates_removed, so the
\* counter equals the number of such calls and every key met has exactly one
\* Entity.
C8_DuplicateCountedOnce ==
    /\ duplicates_removed = Cardinality(Collisions)
    /\ \A i \in DOMAIN ecalls : Cardinality(EntitiesWithKey(CallKey(ecalls[i]))) = 1
    /\ total_entities(entities) = Len(ecalls) - Cardinality(Collisions)

\* C8 witness: two raw names with the same canonical synonym in one pass
C8_Witness ==
    /\ epc = "done"
    /\ \E i, j \in DOMAIN ecalls :
        /\ i < j
        /\ ecalls[i].name = StrWood
        /\ ecalls[j].name = StrTimber
        /\ ecalls[i].type = ecalls[j].type
    /\ duplicates_removed >= 1
    /\ entity_count = total_entities(entities)

\* The values of the six list fields of a row
ListFieldValues(row) ==
    Len(row.surfaces) + Len(row.incompatible_surfaces)
        + Len(row.soilage_types) + Len(row.incompatible_soilage)
        + Len(row.locations) + Len(row.benefits)

\* The number of rows plus the number of their list values
RECURSIVE InputSize(_)
InputSize(rows) ==
    IF rows = <<>> THEN 0
    ELSE 1 + ListFieldValues(Head(rows)) + InputSize(Tail(rows))

\* The sizes of the per-type entity lists, added up
ListedEntities ==
    Len(entities["Product"]) + Len(entities["Surface"])
        + Len(entities["Soilage"]) + Len(entities["Location"])
        + Len(entities["Benefit"])

\* C29: extract_entities conserves its input.  In the result entity_count +
\* duplicates_removed is the number of rows plus the sum of the lengths of
\* the six list fields over all rows, and entity_count is the sum of the
\* sizes of the per-type entity lists; inside the loop the entities listed
\* and the duplicates counted add up to the values walked so far.
C29_ExtractionConservesInput ==
    /\ epc = "loop" =>
           ListedEntities + duplicates_removed
               = InputSize(erows) - Len(epending)
    /\ epc = "done" =>
           /\ entity_count + duplicates_removed = InputSize(erows)
           /\ entity_count = ListedEntities

\* C29 witness: a pass over three rows with list values of every kind, some
\* of them duplicates, has returned
C29_Witness ==
    /\ epc = "done"
    /\ Len(erows) = 3
    /\ InputSize(erows) = 12
    /\ duplicates_removed >= 4
    /\ entity_count >= 6
    /\ \E i \in DOMAIN erows : erows[i].incompatible_soilage # <<>>
    /\ \E i \in DOMAIN erows : erows[i].incompatible_surfaces # <<>>

-----------------------------------------------------------------------------
(* RelationshipBuilder: build_from_rows, _build_product_relationships,      *)
(* _get_or_create_entity.  The client is any client: an upsert_entity call  *)
(* returns an id, returns None or raises; create_relationship returns or    *)
(* raises.                                                                  *)

MaxBuildRows == 2

\* What one client.upsert_entity call can do
Raise == "<raise>"
NoneId == "<None>"
Ids == {"e1", "e2"}
UpsertOutcomes == {Raise, NoneId} \cup Ids

\* The for loops of _build_product_relationships, in order
RelationshipOrder ==
    << [field |-> "surfaces", type |-> "Surface",
        relationship_type |-> "SUITABLE_FOR"],
       [field |-> "incompatible_surfaces", type |-> "Surface",
        relationship_type |-> "INCOMPATIBLE_WITH"],
       [field |-> "soilage_types", type |-> "Soilage",
        relationship_type |-> "HANDLES"],
       [field |-> "incompatible_soilage", type |-> "Soilage",
        relationship_type |-> "UNSUITABLE_FOR"],
       [field |-> "locations", type |-> "Location",
        relationship_type |-> "USED_IN"],
       [field |-> "benefits", type |-> "Benefit",
        relationship_type |-> "HAS_BENEFIT"] >>

\* The values _build_product_relationships resolves for one row, in order
RECURSIVE RelationshipCalls(_, _)
RelationshipCalls(row, k) ==
    IF k > Len(RelationshipOrder) THEN <<>>
    ELSE [i \in DOMAIN row[RelationshipOrder[k].field] |->
             [type |-> RelationshipOrder[k].type,
              name |-> row[RelationshipOrder[k].field][i],
              relationship_type |-> RelationshipOrder[k].relationship_type]]
         \o RelationshipCalls(row, k + 1)

\* A variant of the constructor below that takes the ids in the other order
RelationshipReversed(source_entity_id, target_entity_id, relationship_type) ==
    [source_entity_id |-> target_entity_id,
     target_entity_id |-> source_entity_id,
     relationship_type |-> relationship_type]

\* Relationship(...): the model validates that both ids are strings
Relationship(source_entity_id, target_entity_id, relationship_type) ==
    [source_entity_id |-> source_entity_id,
     target_entity_id |-> target_entity_id,
     relationship_type |-> relationship_type]

\* A variant of the validation below that accepts None for an id
RelationshipNeverRaises(source_entity_id, target_entity_id) == FALSE

RelationshipRaises(source_entity_id, target_entity_id) ==
    source_entity_id = NoneId \/ target_entity_id = NoneId

\* The part of the builder that _get_or_create_entity reads and writes
BuilderState ==
    [cache |-> entity_id_cache, stats |-> stats, log |-> resolutions]

\* A variant of the body below that does not store the id in the local cache
resolve_entity_no_store(b, cache_key, display_name, outcome) ==
    IF cache_key \in DOMAIN b.cache
    THEN [raised |-> FALSE, id |-> b.cache[cache_key], cache |-> b.cache,
          stats |-> [b.stats EXCEPT !.entities_from_cache = @ + 1],
          log |-> Append(b.log, [key |-> cache_key, name |-> display_name,
                                 via |-> "cache", outcome |-> b.cache[cache_key]])]
    ELSE [raised |-> outcome = Raise, id |-> outcome, cache |-> b.cache,
          stats |-> IF outcome = Raise THEN b.stats
                    ELSE [b.stats EXCEPT !.entities_created = @ + 1],
          log |-> Append(b.log, [key |-> cache_key, name |-> display_name,
                                 via |-> "upsert", outcome |-> outcome])]

\* A variant of the body below that takes a failed upsert for an id
resolve_entity_swallow(b, cache_key, display_name, outcome) ==
    IF cache_key \in DOMAIN b.cache
    THEN [raised |-> FALSE, id |-> b.cache[cache_key], cache |-> b.cache,
          stats |-> [b.stats EXCEPT !.entities_from_cache = @ + 1],
          log |-> Append(b.log, [key |-> cache_key, name |-> display_name,
                                 via |-> "cache", outcome |-> b.cache[cache_key]])]
    ELSE [raised |-> FALSE, id |-> outcome,
          cache |-> IF outcome = Raise THEN b.cache
                    ELSE b.cache @@ (cache_key :> outcome),
          stats |-> IF outcome = Raise THEN b.stats
                    ELSE [b.stats EXCEPT !.entities_created = @ + 1],
          log |-> Append(b.log, [key |-> cache_key, name |-> display_name,
                                 via |-> "upsert", outcome |-> outcome])]

\* _get_or_create_entity from the cache check on: a cache hit, or one
\* client.upsert_entity call that raises (nothing is stored or counted) or
\* returns (the id is stored and counted)
resolve_entity(b, cache_key, display_name, outcome) ==
    IF cache_key \in DOMAIN b.cache
    THEN [raised |-> FALSE, id |-> b.cache[cache_key], cache |-> b.cache,
          stats |-> [b.stats EXCEPT !.entities_from_cache = @ + 1],
          log |-> Append(b.log, [key |-> cache_key, name |-> display_name,
                                 via |-> "cache", outcome |-> b.cache[cache_key]])]
    ELSE [raised |-> outcome = Raise, id |-> outcome,
          cache |-> IF outcome = Raise THEN b.cache
                    ELSE b.cache @@ (cache_key :> outcome),
          stats |-> IF outcome = Raise THEN b.stats
                    ELSE [b.stats EXCEPT !.entities_created = @ + 1],
          log |-> Append(b.log, [key |-> cache_key, name |-> display_name,
                                 via |-> "upsert", outcome |-> outcome])]

\* A variant of the operator below whose cache key holds the name as given
get_or_create_entity_by_name(b, entity_type, name, outcome) ==
    resolve_entity(b, <<entity_type, name>>, normalize_name(name), outcome)

\* _get_or_create_entity: the key is (entity_type, get_normalized_key(name)),
\* the display name normalize_name(name)
get_or_create_entity(b, entity_type, name, outcome) ==
    resolve_entity(b, <<entity_type, get_normalized_key(name)>>,
                   normalize_name(name), outcome)

\* The strings build_from_rows appends to result.errors
ProductError(product_name, e) ==
    [stage |-> "product", product_name |-> product_name, e |-> e]

RelationshipError(e) ==
    [stage |-> "relationship", product_name |-> <<>>, e |-> e]

\* The message of the exception of a resolution that did not give a usable id
ExceptionOf(r) == IF r.raised THEN "upsert_entity raised" ELSE "ValidationError"

\* Rows given to the builder
BuildRows ==
    { [MatrixRow(Str3D) EXCEPT !.surfaces = <<StrVinyl, StrWood>>,
                               !.incompatible_surfaces = <<StrTimber>>],
      [MatrixRow(StrAW) EXCEPT !.surfaces = <<LowerStr(StrVinyl)>>,
                               !.soilage_types = <<StrGrease>>],
      MatrixRow(LowerStr(StrAW)) }

BuildInputs ==
    UNION {[1..n -> BuildRows] : n \in 1..MaxBuildRows}

BuildStart ==
    /\ brows \in BuildInputs
    /\ bi = 0
    /\ bpending = <<>>
    /\ product_id = NoneId
    /\ relationships = <<>>
    /\ relationships_to_create = <<>>
    /\ entity_id_cache = <<>>
    /\ stats = [entities_created |-> 0, entities_from_cache |-> 0]
    /\ result = [entities_created |-> 0, entities_cached |-> 0,
                 relationships_created |-> 0, errors |-> <<>>]
    /\ resolutions = <<>>
    /\ rel_calls = <<>>
    /\ bpc = "rows"

\* One iteration of the row loop up to the first await of
\* _build_product_relationships: the Product entity is resolved.  An
\* exception ends the iteration with one error; a row without list values is
\* finished at once (it stages nothing).
BuildProduct ==
    /\ bpc = "rows"
    /\ bi < Len(brows)
    /\ \E outcome \in UpsertOutcomes :
       \E r \in {get_or_create_entity(BuilderState, "Product",
                                      brows[bi + 1].product_name, outcome)} :
       \E todo \in {RelationshipCalls(brows[bi + 1], 1)} :
        /\ entity_id_cache' = r.cache
        /\ stats' = r.stats
        /\ resolutions' = r.log
        /\ relationships' = <<>>
        /\ IF r.raised
           THEN /\ result' = [result EXCEPT !.errors =
                       Append(@, ProductError(brows[bi + 1].product_name,
                                              ExceptionOf(r)))]
                /\ bi' = bi + 1
                /\ UNCHANGED <<bpending, product_id, bpc>>
           ELSE /\ product_id' = r.id
                /\ bpending' = todo
                /\ bi' = IF todo = <<>> THEN bi + 1 ELSE bi
                /\ bpc' = IF todo = <<>> THEN "rows" ELSE "row"
                /\ UNCHANGED result
    /\ UNCHANGED <<brows, relationships_to_create, rel_calls>>
    /\ UNCHANGED <<parserVars, normVars, clientVars, extVars, matchVars, procVars>>

\* One iteration of a for loop of _build_product_relationships: the value is
\* resolved and its Relationship appended.  An exception (of the upsert or of
\* Relationship(...)) drops the list and ends the row with one error; after
\* the last value the list is returned and build_from_rows extends
\* relationships_to_create with it.
BuildValue ==
    /\ bpc = "row"
    /\ \E outcome \in UpsertOutcomes :
       \E call \in {Head(bpending)} :
       \E r \in {get_or_create_entity(BuilderState, call.type, call.name,
                                      outcome)} :
        /\ entity_id_cache' = r.cache
        /\ stats' = r.stats
        /\ resolutions' = r.log
        /\ IF r.raised \/ RelationshipRaises(product_id, r.id)
           THEN /\ result' = [result EXCEPT !.errors =
                       Append(@, ProductError(brows[bi + 1].product_name,
                                              ExceptionOf(r)))]
                /\ relationships' = <<>>
                /\ bpending' = <<>>
                /\ bi' = bi + 1
                /\ bpc' = "rows"
                /\ UNCHANGED relationships_to_create
           ELSE /\ relationships' =
                       IF Len(bpending) = 1 THEN <<>>
                       ELSE Append(relationships,
                                   Relationship(product_id, r.id,
                                                call.relationship_type))
                /\ relationships_to_create' =
                       IF Len(bpending) = 1
                       THEN relationships_to_create \o
                            Append(relationships,
                                   Relationship(product_id, r.id,
                                                call.relationship_type))
                       ELSE relationships_to_create
                /\ bpending' = Tail(bpending)
                /\ bi' = IF Len(bpending) = 1 THEN bi + 1 ELSE bi
                /\ bpc' = IF Len(bpending) = 1 THEN "rows" ELSE "row"
                /\ UNCHANGED result
    /\ UNCHANGED <<brows, product_id, rel_calls>>
    /\ UNCHANGED <<parserVars, normVars, clientVars, extVars, matchVars, procVars>>

\* A variant of the iteration below in which a call that raises ends the loop
BuildCreateRelationshipUntilFailure ==
    /\ bpc = "rows"
    /\ bi = Len(brows)
    /\ Len(rel_calls) < Len(relationships_to_create)
    /\ \E ok \in BOOLEAN :
        /\ rel_calls' = Append(rel_calls,
               [relationship |-> relationships_to_create[Len(rel_calls) + 1],
                ok |-> ok])
        /\ result' = IF ok
                     THEN [result EXCEPT !.relationships_created = @ + 1]
                     ELSE [result EXCEPT
                               !.errors = Append(@,
                                   RelationshipError("create_relationship raised")),
                               !.entities_created = stats.entities_created,
                               !.entities_cached = stats.entities_from_cache]
        /\ bpc' = IF ok THEN "rows" ELSE "done"
    /\ UNCHANGED <<brows, bi, bpending, product_id, relationships,
                   relationships_to_create, entity_id_cache, stats,
                   resolutions>>
    /\ UNCHANGED <<parserVars, normVars, clientVars, extVars, matchVars, procVars>>

\* A variant of the iteration below that creates the relationships staged so
\* far after any row
BuildCreateRelationshipEarly ==
    /\ bpc = "rows"
    /\ Len(rel_calls) < Len(relationships_to_create)
    /\ \E ok \in BOOLEAN :
        /\ rel_calls' = Append(rel_calls,
               [relationship |-> relationships_to_create[Len(rel_calls) + 1],
                ok |-> ok])
        /\ result' = IF ok
                     THEN [result EXCEPT !.relationships_created = @ + 1]
                     ELSE [result EXCEPT !.errors =
                               Append(@, RelationshipError("create_relationship raised"))]
    /\ UNCHANGED <<brows, bi, bpending, product_id, relationships,
                   relationships_to_create, entity_id_cache, stats,
                   resolutions, bpc>>
    /\ UNCHANGED <<parserVars, normVars, clientVars, extVars, matchVars, procVars>>

\* One iteration of the loop over relationships_to_create: the call returns
\* (the count goes up) or raises (one error)
BuildCreateRelationship ==
    /\ bpc = "rows"
    /\ bi = Len(brows)
    /\ Len(rel_calls) < Len(relationships_to_create)
    /\ \E ok \in BOOLEAN :
        /\ rel_calls' = Append(rel_calls,
               [relationship |-> relationships_to_create[Len(rel_calls) + 1],
                ok |-> ok])
        /\ result' = IF ok
                     THEN [result EXCEPT !.relationships_created = @ + 1]
                     ELSE [result EXCEPT !.errors =
                               Append(@, RelationshipError("create_relationship raised"))]
    /\ UNCHANGED <<brows, bi, bpending, product_id, relationships,
                   relationships_to_create, entity_id_cache, stats,
                   resolutions, bpc>>
    /\ UNCHANGED <<parserVars, normVars, clientVars, extVars, matchVars, procVars>>

\* After both loops: the counters are copied and the BuildResult returned
BuildReturn ==
    /\ bpc = "rows"
    /\ bi = Len(brows)
    /\ Len(rel_calls) = Len(relationships_to_create)
    /\ result' = [result EXCEPT
                      !.entities_created = stats.entities_created,
                      !.entities_cached = stats.entities_from_cache]
    /\ bpc' = "done"
    /\ UNCHANGED <<brows, bi, bpending, product_id, relationships,
                   relationships_to_create, entity_id_cache, stats,
                   resolutions, rel_calls>>
    /\ UNCHANGED <<parserVars, normVars, clientVars, extVars, matchVars, procVars>>

(* Properties of the builder *)

\* The _get_or_create_entity calls that went to client.upsert_entity
UpsertCalls == {i \in DOMAIN resolutions : resolutions[i].via = "upsert"}

ReturnedUpserts == {i \in UpsertCalls : resolutions[i].outcome # Raise}

CacheHits == {i \in DOMAIN resolutions : resolutions[i].via = "cache"}

\* C1 as stated: within one build_from_rows run, whatever the client does
\* (upsert calls that raise included), upsert_entity is called at most once
\* per (entity_type, normalized_key), and every later resolution of the key
\* is a cache hit.
C1_AtMostOneUpsertPerKey ==
    \A i, j \in DOMAIN resolutions :
        (i < j /\ i \in UpsertCalls /\ resolutions[i].key = resolutions[j].key)
            => j \in CacheHits

\* C1 amended: within one build_from_rows run at most one upsert_entity call
\* per (entity_type, normalized_key) returns; every resolution of the key
\* after it is a cache hit that gives the id it returned and is counted in
\* entities_from_cache; cache hits happen only after such a call, and an
\* upsert_entity call that raised is followed by another upsert_entity call
\* at the next resolution of its key.
C1_AtMostOneReturnedUpsertPerKey ==
    \A returned \in {ReturnedUpserts} : \A hits \in {CacheHits} :
    /\ \A i \in returned : \A j \in DOMAIN resolutions :
        (i < j /\ resolutions[i].key = resolutions[j].key)
            => /\ j \in hits
               /\ resolutions[j].outcome = resolutions[i].outcome
    /\ \A j \in hits : \E i \in returned :
        i < j /\ resolutions[i].key = resolutions[j].key
    /\ stats.entities_from_cache = Cardinality(hits)
    /\ stats.entities_created = Cardinality(returned)
    /\ DOMAIN entity_id_cache = {resolutions[i].key : i \in returned}

\* C1 witness: a finished run in which the upsert of a key raised, the next
\* resolution of the key called upsert_entity again and got an id, and a
\* later resolution of the key was a cache hit
C1_Witness ==
    /\ bpc = "done"
    /\ \E i, j, k \in DOMAIN resolutions :
        /\ i < j /\ j < k
        /\ resolutions[i].key = resolutions[j].key
        /\ resolutions[j].key = resolutions[k].key
        /\ i \in UpsertCalls \ ReturnedUpserts
        /\ j \in ReturnedUpserts
        /\ k \in CacheHits

(* The rows of a run, read off the log of resolutions: a row starts with    *)
(* the resolution of its Product, the resolutions of its values follow      *)

ProductCalls == {i \in DOMAIN resolutions : resolutions[i].key[1] = "Product"}

\* The same in one pass over the log: for every started row its first and
\* its last resolution
RECURSIVE RowSpansFrom(_, _)
RowSpansFrom(i, spans) ==
    IF i > Len(resolutions) THEN spans
    ELSE RowSpansFrom(i + 1,
            IF resolutions[i].key[1] = "Product"
            THEN Append(spans, [first |-> i, last |-> i])
            ELSE [spans EXCEPT ![Len(spans)].last = i])

\* For every started row: its first and last resolution and whether its
\* processing ended with an exception (see RowRaised below)
RowTable ==
    LET spans == RowSpansFrom(1, <<>>)
    IN  [r \in DOMAIN spans |->
            [first |-> spans[r].first,
             last |-> spans[r].last,
             raised |->
                \/ resolutions[spans[r].last].outcome = Raise
                \/ /\ spans[r].last # spans[r].first
                   /\ \/ resolutions[spans[r].first].outcome = NoneId
                      \/ resolutions[spans[r].last].outcome = NoneId]]

\* The rows whose processing has started
StartedRows == 1..Cardinality(ProductCalls)

FirstCall(r) == RowTable[r].first

LastCall(r) == RowTable[r].last

\* The processing of row r ended with an exception: its last resolution
\* raised, or a Relationship was built with an id that is None
RowRaised(r) == RowTable[r].raised

\* The finished rows of row table rt that ended with an exception
FailedIn(rt) == {r \in 1..bi : rt[r].raised}

FailedRows == FailedIn(RowTable)

\* The k-th smallest member of a set of rows
NthOf(rows, k) ==
    CHOOSE r \in rows : Cardinality({q \in rows : q <= r}) = k

NthFailedRow(k) == NthOf(FailedRows, k)

IsProductError(e) == e.stage = "product"

IsRelationshipError(e) == e.stage = "relationship"

\* The number of relationships the finished rows up to r have staged
RECURSIVE StagedCount(_, _)
StagedCount(rt, r) ==
    IF r = 0 THEN 0
    ELSE StagedCount(rt, r - 1)
         + (IF rt[r].raised THEN 0 ELSE rt[r].last - rt[r].first)

StagedUpTo(r) == StagedCount(RowTable, r)

\* C14: in build_from_rows an exception while resolving the entities of one
\* row is caught: the errors of the result hold exactly one error string per
\* row that raised, in row order and naming the row's product; every later
\* row is still processed (it resolves its Product and, unless it raises
\* itself, stages all its relationships); and build_from_rows returns a
\* BuildResult after the last row.
C14_RowExceptionCaught ==
    /\ bpc \in {"rows", "row", "done"}
         => /\ Cardinality(ProductCalls) = bi + (IF bpc = "row" THEN 1 ELSE 0)
            /\ \A rt \in {RowTable} : \A failed \in {FailedIn(rt)} :
               \A pe \in {SelectSeq(result.errors, IsProductError)} :
                /\ Len(pe) = Cardinality(failed)
                /\ \A k \in DOMAIN pe :
                     pe[k].product_name = brows[NthOf(failed, k)].product_name
                /\ Len(relationships_to_create) = StagedCount(rt, bi)
                /\ \A r \in 1..bi : ~rt[r].raised =>
                     rt[r].last - rt[r].first
                         = Len(RelationshipCalls(brows[r], 1))
    /\ bpc = "done"
         => /\ bi = Len(brows)
            /\ result.entities_created = stats.entities_created
            /\ result.entities_cached = stats.entities_from_cache

\* C14 witness: the first of two rows raised while resolving a value, the
\* second row staged its relationships, and the BuildResult was returned
C14_Witness ==
    /\ bpc = "done"
    /\ Len(brows) = 2
    /\ FailedRows = {1}
    /\ LastCall(1) # FirstCall(1)
    /\ resolutions[LastCall(1)].outcome = Raise
    /\ Len(SelectSeq(result.errors, IsProductError)) = 1
    /\ Len(relationships_to_create) = Len(RelationshipCalls(brows[2], 1))
    /\ Len(relationships_to_create) > 0

\* The create_relationship calls that returned
SucceededCalls == {i \in DOMAIN rel_calls : rel_calls[i].ok}

\* C15: in step 4 of build_from_rows every staged relationship gets exactly
\* one create_relationship attempt, in staging order and whatever the
\* outcome of the earlier attempts; each failed attempt adds exactly one
\* error string, relationships_created is the number of attempts that
\* succeeded, and when the BuildResult is returned relationships_created
\* plus the relationship errors is the number of staged relationships.
C15_EveryStagedRelationshipAttempted ==
    /\ Len(rel_calls) <= Len(relationships_to_create)
    /\ \A i \in DOMAIN rel_calls :
         rel_calls[i].relationship = relationships_to_create[i]
    /\ rel_calls # <<>> => bi = Len(brows)
    /\ bpc \in {"rows", "row"} =>
         /\ result.relationships_created = Cardinality(SucceededCalls)
         /\ Len(SelectSeq(result.errors, IsRelationshipError))
                = Len(rel_calls) - Cardinality(SucceededCalls)
    /\ bpc = "done" =>
         /\ Len(rel_calls) = Len(relationships_to_create)
         /\ result.relationships_created = Cardinality(SucceededCalls)
         /\ result.relationships_created
              + Len(SelectSeq(result.errors, IsRelationshipError))
                = Len(relationships_to_create)

\* C15 witness: the first attempt failed, a later one succeeded, and a row
\* error is in the result as well
C15_Witness ==
    /\ bpc = "done"
    /\ Len(relationships_to_create) >= 2
    /\ ~rel_calls[1].ok
    /\ rel_calls[Len(rel_calls)].ok
    /\ result.relationships_created >= 1
    /\ Len(SelectSeq(result.errors, IsProductError)) = 1
    /\ Len(SelectSeq(result.errors, IsRelationshipError)) >= 1

\* The relationships row r has staged, read off the log: none when the row
\* raised, else one per value, from the Product id to the id of the value
RowStagedIn(rt, r) ==
    IF rt[r].raised THEN <<>>
    ELSE LET calls == RelationshipCalls(brows[r], 1)
         IN  [i \in DOMAIN calls |->
                 Relationship(resolutions[rt[r].first].outcome,
                              resolutions[rt[r].first + i].outcome,
                              calls[i].relationship_type)]

RowStaged(r) == RowStagedIn(RowTable, r)

RECURSIVE StagedByRows(_, _)
StagedByRows(rt, r) ==
    IF r = 0 THEN <<>> ELSE StagedByRows(rt, r - 1) \o RowStagedIn(rt, r)

\* The resolutions of row r that went to upsert_entity and returned
RowReturnedUpsertsIn(rt, r) ==
    {i \in rt[r].first..rt[r].last :
        resolutions[i].via = "upsert" /\ resolutions[i].outcome # Raise}

RowReturnedUpserts(r) == RowReturnedUpsertsIn(RowTable, r)

\* C24: in one build_from_rows run every upsert_entity call precedes every
\* create_relationship call: the first create_relationship call is made when
\* the last row is finished, and from then on no entity is resolved.
C24_UpsertsPrecedeCreates ==
    [][(rel_calls' # <<>>) =>
           /\ bi = Len(brows)
           /\ bpc \in {"rows", "done"}
           /\ resolutions' = resolutions
           /\ entity_id_cache' = entity_id_cache]_vars

\* C24 witness: a finished run with upsert_entity calls for two rows and
\* create_relationship calls for the relationships of both
C24_Witness ==
    /\ bpc = "done"
    /\ Len(brows) = 2
    /\ FailedRows = {}
    /\ Cardinality(UpsertCalls) >= 3
    /\ RowStaged(1) # <<>>
    /\ RowStaged(2) # <<>>
    /\ Len(rel_calls) = Len(RowStaged(1)) + Len(RowStaged(2))

\* C23: when the resolution of a value of a row fails, the row stages
\* nothing: relationships_to_create holds the relationships of the rows that
\* did not fail and no other, the partial list of the failed row is dropped,
\* every create_relationship call is for a staged relationship, and the
\* entities upserted for the failed row before the failure are in the local
\* cache and in the created count.
C23_FailedRowStagesNothing ==
    bpc \in {"rows", "done"} =>
        \A rt \in {RowTable} :
        /\ relationships_to_create = StagedByRows(rt, bi)
        /\ relationships = <<>>
        /\ \A i \in DOMAIN rel_calls :
             rel_calls[i].relationship = relationships_to_create[i]
        /\ \A r \in FailedIn(rt) : \A i \in RowReturnedUpsertsIn(rt, r) :
             /\ resolutions[i].key \in DOMAIN entity_id_cache
             /\ entity_id_cache[resolutions[i].key] = resolutions[i].outcome
        /\ stats.entities_created = Cardinality(ReturnedUpserts)

\* C23 witness: the first row resolved its Product and its first value and
\* failed at the second value; nothing of it was staged or created, the two
\* entities are in the cache and counted, and the second row was staged
C23_Witness ==
    /\ bpc = "done"
    /\ Len(brows) = 2
    /\ FailedRows = {1}
    /\ Cardinality(RowReturnedUpserts(1)) = 2
    /\ LastCall(1) = 3
    /\ entity_id_cache[resolutions[2].key] \in Ids
    /\ stats.entities_created >= 3
    /\ relationships_to_create = RowStaged(2)
    /\ Len(rel_calls) = Len(RowStaged(2))
    /\ rel_calls # <<>>

\* The names of the rows given to the builder
BuildNames ==
    UNION {{row.product_name} \cup UNION {Range(row[f]) : f \in FieldNames} :
               row \in BuildRows}

\* get_normalized_key of each of them
BuildKeys == [name \in BuildNames |-> get_normalized_key(name)]

\* The local cache entry of a value of a given entity type
CachedId(entity_type, name) ==
    entity_id_cache[<<entity_type, BuildKeys[name]>>]

\* The relationships of row r with the ids the local cache holds for the
\* row's Product and for each of its values
RowRelationships(r) ==
    LET calls == RelationshipCalls(brows[r], 1)
    IN  [i \in DOMAIN calls |->
            [source_entity_id |-> CachedId("Product", brows[r].product_name),
             target_entity_id |-> CachedId(calls[i].type, calls[i].name),
             relationship_type |-> calls[i].relationship_type]]

RECURSIVE SentByRows(_, _)
SentByRows(rt, r) ==
    IF r = 0 THEN <<>>
    ELSE SentByRows(rt, r - 1)
         \o (IF rt[r].raised THEN <<>> ELSE RowRelationships(r))

\* C25: every relationship given to create_relationship was staged from a
\* value of a row of the run; its source id is the id resolved for that
\* row's Product and its target id the id resolved (by upsert_entity or from
\* the local cache) for the (type, normalized key) of that value, both as
\* the local cache holds them, and neither id is None.
C25_RelationshipsUseResolvedIds ==
    /\ bpc \in {"rows", "done"} =>
         \A rt \in {RowTable} :
         /\ \A r \in 1..bi : ~rt[r].raised =>
              \A i \in rt[r].first..rt[r].last :
                  resolutions[i].key \in DOMAIN entity_id_cache
         /\ relationships_to_create = SentByRows(rt, bi)
    /\ \A i \in DOMAIN rel_calls :
         /\ rel_calls[i].relationship = relationships_to_create[i]
         /\ rel_calls[i].relationship.source_entity_id \in Ids
         /\ rel_calls[i].relationship.target_entity_id \in Ids
         /\ \E j, k \in DOMAIN resolutions :
              /\ j < k
              /\ resolutions[j].key[1] = "Product"
              /\ resolutions[j].outcome
                    = rel_calls[i].relationship.source_entity_id
              /\ resolutions[k].outcome
                    = rel_calls[i].relationship.target_entity_id

\* C25 witness: a relationship was sent whose target id came from the local
\* cache (the value has the key of an earlier value) and whose source id was
\* returned by upsert_entity for the row's Product
C25_Witness ==
    /\ bpc = "done"
    /\ \E i \in DOMAIN rel_calls : \E j, k \in DOMAIN resolutions :
        /\ j < k
        /\ resolutions[j].key[1] = "Product"
        /\ resolutions[j].via = "upsert"
        /\ resolutions[k].via = "cache"
        /\ rel_calls[i].relationship.relationship_type = "INCOMPATIBLE_WITH"
        /\ rel_calls[i].relationship.source_entity_id = resolutions[j].outcome
        /\ rel_calls[i].relationship.target_entity_id = resolutions[k].outcome
        /\ rel_calls[i].relationship.source_entity_id
             # rel_calls[i].relationship.target_entity_id

-----------------------------------------------------------------------------
(* ProductMatcher: _build_lookup, _normalize, match, _similarity.  A score  *)
(* is a fraction <<numerator, denominator>>, so that the comparisons with   *)
(* the threshold are exact.  A dict is the sequence of its items in         *)
(* insertion order.                                                         *)

MaxScraped == 2

Frac(n, d) == <<n, d>>

FracLess(a, b) == a[1] * b[2] < b[1] * a[2]

FracLeq(a, b) == a[1] * b[2] <= b[1] * a[2]

DictKeys(d) == {d[i].key : i \in DOMAIN d}

DictGet(d, k) == d[CHOOSE i \in DOMAIN d : d[i].key = k].value

\* d[k] = v: a new key goes to the end, a known key keeps its position
DictSet(d, k, v) ==
    IF k \in DictKeys(d)
    THEN [i \in DOMAIN d |-> IF d[i].key = k THEN [key |-> k, value |-> v]
                                             ELSE d[i]]
    ELSE Append(d, [key |-> k, value |-> v])

\* re.sub(r"[^a-z0-9\s]", " ", s)
ReplaceSpecial(s) ==
    [i \in 1..Len(s) |->
        IF s[i] \in LowerSet \/ s[i] \in DigitSet \/ IsSpaceChar(s[i])
        THEN s[i] ELSE " "]

\* ProductMatcher._normalize
normalize(name) ==
    IF name = <<>> THEN <<>>
    ELSE Strip(CollapseSpaces(ReplaceSpecial(Strip(LowerStr(name)))))

\* ProductMatcher._build_lookup: the loop from the k-th product on
RECURSIVE BuildLookupFrom(_, _, _)
BuildLookupFrom(scraped, k, lookups) ==
    IF k > Len(scraped) THEN lookups
    ELSE IF scraped[k].product_name = <<>>
    THEN BuildLookupFrom(scraped, k + 1, lookups)
    ELSE BuildLookupFrom(scraped, k + 1,
            [name_lookup |->
                 DictSet(lookups.name_lookup, scraped[k].product_name,
                         scraped[k]),
             normalized_lookup |->
                 DictSet(lookups.normalized_lookup,
                         normalize(scraped[k].product_name), scraped[k])])

build_lookup(scraped) ==
    BuildLookupFrom(scraped, 1, [name_lookup |-> <<>>,
                                 normalized_lookup |-> <<>>])

\* get_bigrams of _similarity
get_bigrams(s) == {SubSeq(s, i, i + 1) : i \in 1..(Len(s) - 1)}

\* The length of a longest common subsequence
RECURSIVE LCS(_, _)
LCS(s1, s2) ==
    IF s1 = <<>> \/ s2 = <<>> THEN 0
    ELSE IF Head(s1) = Head(s2) THEN 1 + LCS(Tail(s1), Tail(s2))
    ELSE IF LCS(Tail(s1), s2) >= LCS(s1, Tail(s2))
    THEN LCS(Tail(s1), s2) ELSE LCS(s1, Tail(s2))

\* rapidfuzz.fuzz.ratio(s1, s2) / 100.0: the normalized indel similarity
fuzz_ratio(s1, s2) == Frac(2 * LCS(s1, s2), Len(s1) + Len(s2))

\* The fallback of _similarity: Jaccard similarity of the character bigrams
bigram_jaccard(bigrams1, bigrams2) ==
    IF bigrams1 = {} \/ bigrams2 = {} THEN Frac(0, 1)
    ELSE Frac(Cardinality(bigrams1 \cap bigrams2),
              Cardinality(bigrams1 \cup bigrams2))

\* ProductMatcher._similarity; has_rapidfuzz: `from rapidfuzz import fuzz`
\* succeeds in the environment
similarity(s1, s2, has_rapidfuzz) ==
    IF s1 = <<>> \/ s2 = <<>> THEN Frac(0, 1)
    ELSE IF s1 = s2 THEN Frac(1, 1)
    ELSE IF has_rapidfuzz THEN fuzz_ratio(s1, s2)
    ELSE bigram_jaccard(get_bigrams(s1), get_bigrams(s2))

\* a in b for two strings
IsSubstring(a, b) ==
    \E i \in 0..(Len(b) - Len(a)) : SubSeq(b, i + 1, i + Len(a)) = a

ProductMatch(matrix_name, product, confidence, match_type) ==
    [matrix_name |-> matrix_name,
     scraped_name |-> product.product_name,
     scraped_url |-> product.product_url,
     scraped_data |-> product,
     confidence |-> confidence,
     match_type |-> match_type]

\* A variant of the loop below that takes a candidate whose score equals the
\* best one so far
RECURSIVE FuzzyFromLastTie(_, _, _, _)
FuzzyFromLastTie(m, normalized_matrix, k, best) ==
    IF k > Len(m.normalized_lookup) THEN best
    ELSE FuzzyFromLastTie(m, normalized_matrix, k + 1,
            IF /\ FracLeq(best.best_score,
                          similarity(normalized_matrix,
                                     m.normalized_lookup[k].key, m.rapidfuzz))
               /\ FracLess(Frac(0, 1),
                           similarity(normalized_matrix,
                                      m.normalized_lookup[k].key, m.rapidfuzz))
               /\ FracLeq(m.match_threshold,
                          similarity(normalized_matrix,
                                     m.normalized_lookup[k].key, m.rapidfuzz))
            THEN [best_score |-> similarity(normalized_matrix,
                                     m.normalized_lookup[k].key, m.rapidfuzz),
                  best_match |-> <<m.normalized_lookup[k].value>>]
            ELSE best)

\* The loop of strategy 3 from the k-th item of _normalized_lookup on
RECURSIVE FuzzyFrom(_, _, _, _)
FuzzyFrom(m, normalized_matrix, k, best) ==
    IF k > Len(m.normalized_lookup) THEN best
    ELSE FuzzyFrom(m, normalized_matrix, k + 1,
            IF /\ FracLess(best.best_score,
                           similarity(normalized_matrix,
                                      m.normalized_lookup[k].key, m.rapidfuzz))
               /\ FracLeq(m.match_threshold,
                          similarity(normalized_matrix,
                                     m.normalized_lookup[k].key, m.rapidfuzz))
            THEN [best_score |-> similarity(normalized_matrix,
                                     m.normalized_lookup[k].key, m.rapidfuzz),
                  best_match |-> <<m.normalized_lookup[k].value>>]
            ELSE best)

\* min(len, len) / max(len, len) of strategy 4
len_ratio(a, b) ==
    Frac(IF Len(a) <= Len(b) THEN Len(a) ELSE Len(b),
         IF Len(a) <= Len(b) THEN Len(b) ELSE Len(a))

\* The loop of strategy 4 from the k-th item of _normalized_lookup on
RECURSIVE PartialFrom(_, _, _, _)
PartialFrom(m, name, normalized_matrix, k) ==
    IF k > Len(m.normalized_lookup) THEN <<>>
    ELSE IF /\ \/ IsSubstring(normalized_matrix, m.normalized_lookup[k].key)
               \/ IsSubstring(m.normalized_lookup[k].key, normalized_matrix)
            /\ FracLeq(Frac(1, 2),
                       len_ratio(normalized_matrix, m.normalized_lookup[k].key))
    THEN <<ProductMatch(name, m.normalized_lookup[k].value,
                        len_ratio(normalized_matrix,
                                  m.normalized_lookup[k].key), "partial")>>
    ELSE PartialFrom(m, name, normalized_matrix, k + 1)

\* A variant of the two strategies below that tries containment first
match_partial_first(m, name, normalized_matrix, fuzzy) ==
    IF PartialFrom(m, name, normalized_matrix, 1) # <<>>
    THEN PartialFrom(m, name, normalized_matrix, 1)
    ELSE IF fuzzy.best_match # <<>>
    THEN <<ProductMatch(name, fuzzy.best_match[1], fuzzy.best_score, "fuzzy")>>
    ELSE <<>>

\* Strategies 3 and 4 of match, and the final return None
match_fuzzy_partial(m, name, normalized_matrix, fuzzy) ==
    IF fuzzy.best_match # <<>>
    THEN <<ProductMatch(name, fuzzy.best_match[1], fuzzy.best_score, "fuzzy")>>
    ELSE PartialFrom(m, name, normalized_matrix, 1)

\* A variant of the cascade below that tries the normalized index first
match_strategies_normalized_first(m, name, normalized_matrix) ==
    IF normalized_matrix \in DictKeys(m.normalized_lookup)
    THEN <<ProductMatch(name, DictGet(m.normalized_lookup, normalized_matrix),
                        Frac(1, 1), "exact_normalized")>>
    ELSE IF name \in DictKeys(m.name_lookup)
    THEN <<ProductMatch(name, DictGet(m.name_lookup, name),
                        Frac(1, 1), "exact")>>
    ELSE match_fuzzy_partial(m, name, normalized_matrix,
            FuzzyFrom(m, normalized_matrix, 1,
                      [best_score |-> Frac(0, 1), best_match |-> <<>>]))

\* The four strategies of match in order; <<>> is None
match_strategies(m, name, normalized_matrix) ==
    IF name \in DictKeys(m.name_lookup)
    THEN <<ProductMatch(name, DictGet(m.name_lookup, name),
                        Frac(1, 1), "exact")>>
    ELSE IF normalized_matrix \in DictKeys(m.normalized_lookup)
    THEN <<ProductMatch(name, DictGet(m.normalized_lookup, normalized_matrix),
                        Frac(1, 1), "exact_normalized")>>
    ELSE match_fuzzy_partial(m, name, normalized_matrix,
            FuzzyFrom(m, normalized_matrix, 1,
                      [best_score |-> Frac(0, 1), best_match |-> <<>>]))

\* ProductMatcher.match
match(m, name) ==
    IF name = <<>> THEN <<>>
    ELSE match_strategies(m, name, normalize(name))

\* The matcher object
Matcher ==
    [name_lookup |-> name_lookup, normalized_lookup |-> normalized_lookup,
     match_threshold |-> match_threshold, rapidfuzz |-> rapidfuzz]

\* ProductMatcher.get_match_report from the k-th row on
RECURSIVE MatchReportFrom(_, _, _, _)
MatchReportFrom(m, matrix_rows, k, report) ==
    IF k > Len(matrix_rows) THEN report
    ELSE MatchReportFrom(m, matrix_rows, k + 1,
            IF match(m, matrix_rows[k].product_name) # <<>>
            THEN [report EXCEPT !.matched =
                      @ \o match(m, matrix_rows[k].product_name)]
            ELSE [report EXCEPT !.unmatched =
                      Append(@, matrix_rows[k].product_name)])

\* MatchReport(matched, unmatched, match_rate) with
\* match_rate = len(matched) / total if total > 0 else 0.0
MatchReport(lists, total) ==
    [matched |-> lists.matched,
     unmatched |-> lists.unmatched,
     match_rate |-> IF total > 0 THEN Frac(Len(lists.matched), total)
                    ELSE Frac(0, 1)]

HasProductName(row) == row.product_name # <<>>

\* A variant of get_match_report that leaves out the rows without a name
get_match_report_of_named_rows(m, matrix_rows) ==
    MatchReport(MatchReportFrom(m, SelectSeq(matrix_rows, HasProductName), 1,
                                [matched |-> <<>>, unmatched |-> <<>>]),
                Len(matrix_rows))

\* ProductMatcher.get_match_report
get_match_report(m, matrix_rows) ==
    MatchReport(MatchReportFrom(m, matrix_rows, 1,
                                [matched |-> <<>>, unmatched |-> <<>>]),
                Len(matrix_rows))

(* Scraped products and names given to the matcher *)

StrA_W == <<"A", "-", "W">>
StrAWS == <<"A", "W", "S">>
StrDash == <<"-">>

ScrapedNames == {<<>>, StrAW, LowerStr(StrAW), StrA_W, StrAWS, Str3D, StrDash}

\* Names that compete in the fuzzy step: two of them share the key "a w"
TieNames == {StrA_W, LowerStr(StrA_W), StrAWS}

\* Scraped records: the k-th record of a list has the url <<k>>.  The lists
\* of one more record hold the competing names only
ScrapedLists ==
    UNION {[1..n -> ScrapedNames] : n \in 0..MaxScraped}
        \cup [1..(MaxScraped + 1) -> TieNames]

ScrapedProducts(names) ==
    [k \in DOMAIN names |-> [product_name |-> names[k], product_url |-> <<k>>]]

MatchNames ==
    {<<>>, StrAW, LowerStr(StrAW), <<"A", " ", "W">>, <<" ", "A", "W">>,
     StrAWS, <<"A", "W", "X">>, <<"W">>, Str3D}

Thresholds == {Frac(0, 1), Frac(1, 2), Frac(85, 100), Frac(1, 1)}

MaxReportRows == 2

ReportNames == {<<>>, StrAW, <<"A", " ", "W">>, <<"W">>}

\* Row lists given to get_match_report; only product_name is read
ReportRows ==
    UNION {[1..n -> {MatrixRow(name) : name \in ReportNames}] :
               n \in 0..MaxReportRows}

\* After ProductMatcher(scraped_products, match_threshold)
MatchStart ==
    /\ \E names \in ScrapedLists : scraped_products = ScrapedProducts(names)
    /\ match_threshold \in Thresholds
    /\ rapidfuzz \in BOOLEAN
    /\ name_lookup = build_lookup(scraped_products).name_lookup
    /\ normalized_lookup = build_lookup(scraped_products).normalized_lookup
    /\ matrix_product_name = <<>>
    /\ match_result = <<>>
    /\ report_rows = <<>>
    /\ report_result = <<>>
    /\ mpc = "ready"

\* One call of match
Match ==
    /\ mpc = "ready"
    /\ \E name \in MatchNames :
        /\ matrix_product_name' = name
        /\ match_result' = match(Matcher, name)
    /\ mpc' = "matched"
    /\ UNCHANGED <<scraped_products, match_threshold, rapidfuzz, name_lookup,
                   normalized_lookup, report_rows, report_result>>
    /\ UNCHANGED <<parserVars, normVars, clientVars, extVars, buildVars, procVars>>

\* One call of get_match_report
GetMatchReport ==
    /\ mpc = "ready"
    /\ \E matrix_rows \in ReportRows :
        /\ report_rows' = matrix_rows
        /\ report_result' = <<get_match_report(Matcher, matrix_rows)>>
    /\ mpc' = "reported"
    /\ UNCHANGED <<scraped_products, match_threshold, rapidfuzz, name_lookup,
                   normalized_lookup, matrix_product_name, match_result>>
    /\ UNCHANGED <<parserVars, normVars, clientVars, extVars, buildVars, procVars>>

(* Properties of the matcher *)

\* C10: for every non-empty name that is verbatim a key of the exact-name
\* index, match returns a ProductMatch of type "exact" with confidence 1.0
\* (for the record indexed under that name), whatever the other indexed
\* names, the threshold and the similarity function are.
C10_ExactMatch ==
    (/\ mpc = "matched"
     /\ matrix_product_name # <<>>
     /\ matrix_product_name \in DictKeys(name_lookup))
        => /\ Len(match_result) = 1
           /\ match_result[1].match_type = "exact"
           /\ match_result[1].confidence = Frac(1, 1)
           /\ match_result[1].scraped_name = matrix_product_name
           /\ match_result[1].matrix_name = matrix_product_name

\* C10 witness: AW is matched exactly although a later record, aw, took over
\* the normalized key "aw" and the threshold is 1.0
C10_Witness ==
    /\ mpc = "matched"
    /\ matrix_product_name = StrAW
    /\ Len(scraped_products) = 2
    /\ scraped_products[1].product_name = StrAW
    /\ scraped_products[2].product_name = LowerStr(StrAW)
    /\ DictGet(normalized_lookup, LowerStr(StrAW)) = scraped_products[2]
    /\ match_threshold = Frac(1, 1)
    /\ match_result = <<ProductMatch(StrAW, scraped_products[1],
                                     Frac(1, 1), "exact")>>

(* The strategies of match, each stated on its own for the name given to    *)
(* the last call                                                            *)

NormalizedName == normalize(matrix_product_name)

Score(k) == similarity(NormalizedName, normalized_lookup[k].key, rapidfuzz)

ExactSucceeds == matrix_product_name \in DictKeys(name_lookup)

NormalizedSucceeds == NormalizedName \in DictKeys(normalized_lookup)

\* The highest score is at least the threshold
FuzzySucceeds ==
    \E k \in DOMAIN normalized_lookup : FracLeq(match_threshold, Score(k))

\* Some score is above zero and at least the threshold
PositiveFuzzySucceeds ==
    \E k \in DOMAIN normalized_lookup :
        /\ FracLeq(match_threshold, Score(k))
        /\ FracLess(Frac(0, 1), Score(k))

PartialSucceeds ==
    \E k \in DOMAIN normalized_lookup :
        /\ \/ IsSubstring(NormalizedName, normalized_lookup[k].key)
           \/ IsSubstring(normalized_lookup[k].key, NormalizedName)
        /\ FracLeq(Frac(1, 2),
                   len_ratio(NormalizedName, normalized_lookup[k].key))

\* The type of the first strategy that succeeds, "null" when none does
FirstSuccess(fuzzy_succeeds) ==
    IF ExactSucceeds THEN "exact"
    ELSE IF NormalizedSucceeds THEN "exact_normalized"
    ELSE IF fuzzy_succeeds THEN "fuzzy"
    ELSE IF PartialSucceeds THEN "partial"
    ELSE "null"

ResultType ==
    IF match_result = <<>> THEN "null" ELSE match_result[1].match_type

AttainsHighest(k) ==
    \A j \in DOMAIN normalized_lookup : FracLeq(Score(j), Score(k))

\* The result is a fuzzy match for a candidate that attains the highest
\* score, with that score as its confidence
FuzzyForHighest ==
    /\ ResultType = "fuzzy"
    /\ \E k \in DOMAIN normalized_lookup :
        /\ AttainsHighest(k)
        /\ match_result[1].scraped_data = normalized_lookup[k].value
        /\ FracLeq(match_result[1].confidence, Score(k))
        /\ FracLeq(Score(k), match_result[1].confidence)

\* C12: for every threshold in [0,1], when neither exact strategy matches
\* and the highest similarity score over the indexed normalized names is at
\* least the threshold, match returns a "fuzzy" match for a candidate that
\* attains the highest score, with confidence equal to that score.
C12_HighestScoreGivesFuzzy ==
    (/\ mpc = "matched"
     /\ ~ExactSucceeds /\ ~NormalizedSucceeds
     /\ FuzzySucceeds)
        => FuzzyForHighest

\* C12 where the highest score is above zero: the statement holds there,
\* for every threshold of the model (0.0 included) and both similarity
\* functions
C12_PositiveHighestScoreGivesFuzzy ==
    (/\ mpc = "matched"
     /\ ~ExactSucceeds /\ ~NormalizedSucceeds
     /\ PositiveFuzzySucceeds)
        => FuzzyForHighest

\* The case C12 fails in: threshold 0.0, the bigram fallback scores "w"
\* against "aw" 0.0 (a one-character name has no bigram), and the result is
\* the partial match of the containment strategy, not a fuzzy one
C12_ZeroScore ==
    /\ mpc = "matched"
    /\ match_threshold = Frac(0, 1)
    /\ ~rapidfuzz
    /\ matrix_product_name = <<"W">>
    /\ Len(scraped_products) = 1
    /\ scraped_products[1].product_name = StrAW
    /\ FuzzySucceeds /\ ~PositiveFuzzySucceeds
    /\ ResultType = "partial"
    /\ match_result[1].confidence = Frac(1, 2)

\* The candidates of the fuzzy step: the positions of the normalized index
\* whose score is the highest of all and at least the threshold
TiedAtMaximum ==
    {k \in DOMAIN normalized_lookup :
        /\ FracLeq(match_threshold, Score(k))
        /\ \A j \in DOMAIN normalized_lookup : FracLeq(Score(j), Score(k))}

MinOf(S) == CHOOSE k \in S : \A j \in S : k <= j

C22_OverwrittenKey ==
    /\ mpc = "matched"
    /\ ResultType = "fuzzy"
    /\ Cardinality(TiedAtMaximum) = 2
    /\ Len(scraped_products) = 3
    /\ match_result[1].scraped_data = scraped_products[3]
    /\ normalized_lookup[2].value = scraped_products[2]

(* Properties of the match report *)

\* How often a name occurs in a list of names
Occurrences(names, name) ==
    Cardinality({i \in DOMAIN names : names[i] = name})

ReportedMatched ==
    [i \in DOMAIN report_result[1].matched |->
        report_result[1].matched[i].matrix_name]

\* C13: get_match_report partitions the rows: every row's product_name
\* yields exactly one entry, in matched (when match returns a ProductMatch,
\* which is the entry) or in unmatched (when match returns null), so
\* |matched| + |unmatched| is the number of rows; match_rate is |matched|
\* divided by the number of rows, and 0.0 for an empty row list, for which a
\* report is returned as well.
C13_ReportPartitionsRows ==
    mpc = "reported" =>
        /\ Len(report_result) = 1
        /\ \A r \in {report_result[1]} :
            /\ Len(r.matched) + Len(r.unmatched) = Len(report_rows)
            /\ \A i \in DOMAIN report_rows :
                 Occurrences(ReportedMatched, report_rows[i].product_name)
                 + Occurrences(r.unmatched, report_rows[i].product_name)
                 = Occurrences([j \in DOMAIN report_rows |->
                                   report_rows[j].product_name],
                               report_rows[i].product_name)
            /\ \A i \in DOMAIN r.matched :
                 <<r.matched[i]>> = match(Matcher, r.matched[i].matrix_name)
            /\ \A i \in DOMAIN r.unmatched :
                 match(Matcher, r.unmatched[i]) = <<>>
            /\ report_rows # <<>> =>
                 /\ r.match_rate[2] > 0
                 /\ r.match_rate[1] * Len(report_rows)
                        = Len(r.matched) * r.match_rate[2]
            /\ report_rows = <<>> => r.match_rate = Frac(0, 1)

\* C13 witness: of two rows one is matched and the other, a row without a
\* product name, is not; the rate is 1/2
C13_Witness ==
    /\ mpc = "reported"
    /\ Len(report_rows) = 2
    /\ report_rows[1].product_name = <<>>
    /\ report_rows[2].product_name = <<"W">>
    /\ Len(report_result[1].matched) = 1
    /\ report_result[1].matched[1].matrix_name = <<"W">>
    /\ report_result[1].unmatched = << <<>> >>
    /\ report_result[1].match_rate = Frac(1, 2)

\* C13, the empty row list: a report with the rate 0.0 although the matcher
\* has scraped products
C13_EmptyRows ==
    /\ mpc = "reported"
    /\ report_rows = <<>>
    /\ scraped_products # <<>>
    /\ report_result = <<MatchReport([matched |-> <<>>, unmatched |-> <<>>], 0)>>

-----------------------------------------------------------------------------
(* MatrixProcessor: __init__, the client property, process,                 *)
(* _load_scraped_products, _count_relationships; MatrixParser.__init__,     *)
(* parse, _load_file, _find_header_row, _normalize_columns.  The builder    *)
(* stage of process runs the builder's actions above.                       *)

\* str(e) of an exception that reaches the handler of process
ProcessError(e) == [stage |-> "process", product_name |-> <<>>, e |-> e]

\* MatrixParser.__init__: <<>> when it returns, the exception when it raises
parser_init(file) ==
    IF ~file.exists THEN <<"MatrixParseError: File not found">> ELSE <<>>

\* MatrixParser._load_file
load_file(file) ==
    IF file.suffix = ".csv"
    THEN (IF file.readable THEN <<>>
          ELSE <<"MatrixParseError: Failed to load file">>)
    ELSE IF file.suffix \in {".xlsx", ".xls"}
    THEN (IF ~file.readable THEN <<"MatrixParseError: Failed to load file">>
          ELSE IF file.header_row THEN <<>>
          ELSE <<"MatrixParseError: Could not find header row">>)
    ELSE <<"MatrixParseError: Unsupported file type">>

\* MatrixParser._normalize_columns
normalize_columns(file) ==
    IF file.product_column THEN <<>>
    ELSE <<"MatrixParseError: Missing required 'Product' column">>

\* MatrixParser.parse: the exception it raises, or <<>> and the rows
parse(file) ==
    IF load_file(file) # <<>>
    THEN [raised |-> load_file(file), rows |-> <<>>]
    ELSE IF normalize_columns(file) # <<>>
    THEN [raised |-> normalize_columns(file), rows |-> <<>>]
    ELSE [raised |-> <<>>, rows |-> parse_rows(file.df)]

\* A variant of the loader below that takes the records of any JSON value
load_scraped_products_of_any_shape(scraped) ==
    IF ~scraped.path THEN <<>>
    ELSE IF ~scraped.exists THEN <<>>
    ELSE IF ~scraped.json_ok THEN <<>>
    ELSE scraped.products

\* MatrixProcessor._load_scraped_products
load_scraped_products(scraped) ==
    IF ~scraped.path THEN <<>>
    ELSE IF ~scraped.exists THEN <<>>
    ELSE IF ~scraped.json_ok THEN <<>>
    ELSE IF scraped.shape \in {"list", "dict_products"} THEN scraped.products
    ELSE <<>>

\* A variant of the count below that counts the two surface lists only
RECURSIVE count_surface_relationships(_)
count_surface_relationships(matrix_rows) ==
    IF matrix_rows = <<>> THEN 0
    ELSE Len(Head(matrix_rows).surfaces)
         + Len(Head(matrix_rows).incompatible_surfaces)
         + count_surface_relationships(Tail(matrix_rows))

\* MatrixProcessor._count_relationships
RECURSIVE count_relationships(_)
count_relationships(matrix_rows) ==
    IF matrix_rows = <<>> THEN 0
    ELSE Len(Head(matrix_rows).surfaces)
         + Len(Head(matrix_rows).incompatible_surfaces)
         + Len(Head(matrix_rows).soilage_types)
         + Len(Head(matrix_rows).incompatible_soilage)
         + Len(Head(matrix_rows).locations)
         + Len(Head(matrix_rows).benefits)
         + count_relationships(Tail(matrix_rows))

\* ProcessingResult(success=..., entities_created=..., ...)
ProcessingResult(success, created, related, matched, unmatched, errors_) ==
    [success |-> success,
     entities_created |-> created,
     relationships_created |-> related,
     products_matched |-> matched,
     products_unmatched |-> unmatched,
     errors |-> errors_]

\* A variant of the handler below that keeps the errors gathered so far
process_except_keeping_errors(errors_, e) ==
    ProcessingResult(FALSE, 0, 0, 0, 0, Append(errors_, ProcessError(e)))

\* The except clause of process: a failed result with str(e) as its only
\* error, whatever the local list `errors` holds
process_except(errors_, e) ==
    ProcessingResult(FALSE, 0, 0, 0, 0, <<ProcessError(e)>>)

\* A variant of the result below that succeeds when something was created
process_result_by_counts(errors_, entities_created, relationships_created, report) ==
    ProcessingResult(entities_created > 0, entities_created,
        relationships_created,
        IF report # <<>> THEN Len(report[1].matched) ELSE 0,
        IF report # <<>> THEN Len(report[1].unmatched) ELSE 0,
        errors_)

\* The ProcessingResult of the normal return of process
process_result(errors_, entities_created, relationships_created, report) ==
    ProcessingResult(errors_ = <<>>, entities_created, relationships_created,
        IF report # <<>> THEN Len(report[1].matched) ELSE 0,
        IF report # <<>> THEN Len(report[1].unmatched) ELSE 0,
        errors_)

(* Files and configurations given to the processor *)

GoodFile(suffix, frame) ==
    [exists |-> TRUE, suffix |-> suffix, readable |-> TRUE,
     header_row |-> TRUE, product_column |-> TRUE, df |-> frame]

ProcCells ==
    [EmptyCells EXCEPT !["surfaces"] = StrVinyl, !["soilage_types"] = StrGrease]

\* Data frames: no row; one product on two rows; two products
ProcFrames ==
    { <<>>,
      <<RawRow(Str3D, ProcCells),
        RawRow(NaN, [EmptyCells EXCEPT !["surfaces"] = StrTimber])>>,
      <<RawRow(Str3D, ProcCells),
        RawRow(StrAW,
               [EmptyCells EXCEPT !["surfaces"] = LowerStr(StrVinyl)])>> }

\* The matrix file: each ParseError cause once, and files that parse
MatrixFiles ==
    { [GoodFile(".csv", <<>>) EXCEPT !.exists = FALSE],
      GoodFile(".txt", <<>>),
      [GoodFile(".csv", <<>>) EXCEPT !.readable = FALSE],
      [GoodFile(".xlsx", <<>>) EXCEPT !.header_row = FALSE,
                                      !.product_column = FALSE],
      [GoodFile(".csv", <<>>) EXCEPT !.product_column = FALSE] }
    \cup {GoodFile(".csv", frame) : frame \in ProcFrames}
    \cup {GoodFile(".xlsx", frame) : frame \in ProcFrames \ {<<>>}}

ScrapedFile(path, exists, json_ok, shape, items, dicts) ==
    [path |-> path, exists |-> exists, json_ok |-> json_ok, shape |-> shape,
     products |-> items, dicts |-> dicts]

\* The scraped-products file: not configured, missing, not JSON, a JSON value
\* of another shape (the records under another key), a list of records,
\* {"products": [...]}, a list of names
ScrapedFiles ==
    { ScrapedFile(FALSE, FALSE, FALSE, "other", <<>>, TRUE),
      ScrapedFile(TRUE, FALSE, FALSE, "other", <<>>, TRUE),
      ScrapedFile(TRUE, TRUE, FALSE, "other", <<>>, TRUE),
      ScrapedFile(TRUE, TRUE, TRUE, "other",
                  ScrapedProducts(<<Str3D>>), TRUE),
      ScrapedFile(TRUE, TRUE, TRUE, "list",
                  ScrapedProducts(<<Str3D, StrA_W>>), TRUE),
      ScrapedFile(TRUE, TRUE, TRUE, "dict_products",
                  ScrapedProducts(<<StrAWS>>), TRUE),
      ScrapedFile(TRUE, TRUE, TRUE, "list",
                  ScrapedProducts(<<Str3D>>), FALSE) }

ProcessorConfigs ==
    [scraped : ScrapedFiles, api_configured : BOOLEAN, dry_run : BOOLEAN]

ProcStart ==
    /\ matrix_file \in MatrixFiles
    /\ config \in ProcessorConfigs
    /\ prows = <<>>
    /\ match_report = <<>>
    /\ extraction_result = <<>>
    /\ client = "none"
    /\ perrors = <<>>
    /\ caught = <<>>
    /\ propagated = <<>>
    /\ processing_result = <<>>
    /\ pstage = "new"

\* The return of process from its except clause
ProcessFail(errors_, e) ==
    /\ caught' = <<e>>
    /\ processing_result' = <<process_except(errors_, e)>>
    /\ pstage' = "returned"

\* MatrixProcessor(config): MatrixParser(config.matrix_file_path) raises when
\* the file does not exist, and the exception leaves the constructor
Construct ==
    /\ pstage = "new"
    /\ propagated' = parser_init(matrix_file)
    /\ pstage' = IF parser_init(matrix_file) # <<>> THEN "raised"
                 ELSE "constructed"
    /\ UNCHANGED <<matrix_file, config, prows, match_report,
                   extraction_result, client, perrors, caught,
                   processing_result>>
    /\ UNCHANGED <<parserVars, normVars, clientVars, extVars, buildVars, matchVars>>

\* process, step 1: self.parser.parse()
ProcessParse ==
    /\ pstage = "constructed"
    /\ \E p \in {parse(matrix_file)} :
        IF p.raised # <<>>
        THEN /\ ProcessFail(perrors, p.raised[1])
             /\ UNCHANGED prows
        ELSE /\ prows' = p.rows
             /\ pstage' = "parsed"
             /\ UNCHANGED <<caught, processing_result>>
    /\ UNCHANGED <<matrix_file, config, match_report, extraction_result,
                   client, perrors, propagated>>
    /\ UNCHANGED <<parserVars, normVars, clientVars, extVars, buildVars, matchVars>>

\* process, steps 2 and 3: the scraped products are loaded; when the list is
\* not empty a ProductMatcher is built (an item that is no dict raises in
\* _build_lookup) and the match report computed
ProcessMatch ==
    /\ pstage = "parsed"
    /\ \E loaded \in {load_scraped_products(config.scraped)} :
        IF loaded = <<>>
        THEN /\ pstage' = "matched"
             /\ UNCHANGED <<match_report, caught, processing_result,
                            matchVars>>
        ELSE IF ~config.scraped.dicts
        THEN /\ ProcessFail(perrors,
                    "AttributeError: 'str' object has no attribute 'get'")
             /\ scraped_products' = loaded
             /\ match_threshold' = Frac(85, 100)
             /\ UNCHANGED <<match_report, rapidfuzz, name_lookup,
                            normalized_lookup, matrix_product_name,
                            match_result, report_rows, report_result, mpc>>
        ELSE \E has_rapidfuzz \in BOOLEAN :
             \E built \in {build_lookup(loaded)} :
             /\ scraped_products' = loaded
             /\ match_threshold' = Frac(85, 100)
             /\ rapidfuzz' = has_rapidfuzz
             /\ name_lookup' = built.name_lookup
             /\ normalized_lookup' = built.normalized_lookup
             /\ mpc' = "ready"
             /\ report_rows' = prows
             /\ report_result' =
                    <<get_match_report(
                        [name_lookup |-> built.name_lookup,
                         normalized_lookup |-> built.normalized_lookup,
                         match_threshold |-> Frac(85, 100),
                         rapidfuzz |-> has_rapidfuzz], prows)>>
             /\ match_report' = report_result'
             /\ pstage' = "matched"
             /\ UNCHANGED <<matrix_product_name, match_result, caught,
                            processing_result>>
    /\ UNCHANGED <<matrix_file, config, prows, extraction_result, client,
                   perrors, propagated>>
    /\ UNCHANGED <<parserVars, normVars, clientVars, extVars, buildVars>>

\* process, step 4: self.extractor.extract_entities(rows)
ProcessExtract ==
    /\ pstage = "matched"
    /\ extraction_result' = <<extract_entities(prows)>>
    /\ pstage' = "extracted"
    /\ UNCHANGED <<matrix_file, config, prows, match_report, client, perrors,
                   caught, propagated, processing_result>>
    /\ UNCHANGED <<parserVars, normVars, clientVars, extVars, buildVars, matchVars>>

\* process, the dry-run branch and the return
ProcessDryRun ==
    /\ pstage = "extracted"
    /\ config.dry_run
    /\ processing_result' =
           <<process_result(perrors, extraction_result[1].entity_count,
                            count_relationships(prows), match_report)>>
    /\ pstage' = "returned"
    /\ UNCHANGED <<matrix_file, config, prows, match_report,
                   extraction_result, client, perrors, caught, propagated>>
    /\ UNCHANGED <<parserVars, normVars, clientVars, extVars, buildVars, matchVars>>

\* process, step 5 up to the first await of build_from_rows: the client
\* property builds the MementoClient (ValueError without URL or key),
\* __aenter__ returns it, a RelationshipBuilder is made for the rows
ProcessOpenClient ==
    /\ pstage = "extracted"
    /\ ~config.dry_run
    /\ IF ~config.api_configured
       THEN /\ ProcessFail(perrors, "ValueError: Memento API URL is required")
            /\ UNCHANGED <<client, buildVars>>
       ELSE /\ client' = "entered"
            /\ pstage' = "building"
            /\ brows' = prows
            /\ bpc' = "rows"
            /\ UNCHANGED <<bi, bpending, product_id, relationships,
                           relationships_to_create, entity_id_cache, stats,
                           result, resolutions, rel_calls>>
            /\ UNCHANGED <<caught, processing_result>>
    /\ UNCHANGED <<matrix_file, config, prows, match_report,
                   extraction_result, perrors, propagated>>
    /\ UNCHANGED <<parserVars, normVars, clientVars, extVars, matchVars>>

\* process after build_from_rows has returned: the counts and errors are
\* taken over, __aexit__ closes the client (closing an open session can
\* raise), and the result is returned
ProcessClose ==
    /\ pstage = "building"
    /\ bpc = "done"
    /\ perrors' = perrors \o result.errors
    /\ client' = "closed"
    /\ \E close_raises \in {FALSE, resolutions # <<>> \/ rel_calls # <<>>} :
        IF close_raises
        THEN ProcessFail(perrors \o result.errors,
                         "ClientError: session close failed")
        ELSE /\ processing_result' =
                    <<process_result(perrors', result.entities_created,
                                     result.relationships_created,
                                     match_report)>>
             /\ pstage' = "returned"
             /\ UNCHANGED caught
    /\ UNCHANGED <<matrix_file, config, prows, match_report,
                   extraction_result, propagated>>
    /\ UNCHANGED <<parserVars, normVars, clientVars, extVars, buildVars, matchVars>>

(* Properties of the processor *)

\* The four causes of a parse error in the matrix file
IsParseErrorCause(file) ==
    \/ ~file.exists
    \/ file.suffix \notin {".csv", ".xlsx", ".xls"}
    \/ file.suffix \in {".xlsx", ".xls"} /\ ~file.header_row
    \/ ~file.product_column

\* No method of the graph-store client was invoked
NoClientCall ==
    client = "none" /\ resolutions = <<>> /\ rel_calls = <<>>

\* C2 as stated: for each ParseError cause (missing matrix file, unsupported
\* extension, no header row, no product-name column), constructing a
\* MatrixProcessor and running process ends with a ProcessingResult with
\* success = false, no exception reaches the caller and no client method is
\* invoked.
C2_ParseErrorGivesFailedResult ==
    (IsParseErrorCause(matrix_file) /\ pstage \in {"raised", "returned"})
        => /\ propagated = <<>>
           /\ Len(processing_result) = 1
           /\ ~processing_result[1].success
           /\ NoClientCall

\* C2 for the causes met by parse (the file exists): process returns a failed
\* ProcessingResult and no client method is invoked
C2_ParseFailureGivesFailedResult ==
    (IsParseErrorCause(matrix_file) /\ matrix_file.exists
        /\ pstage \in {"raised", "returned"})
        => /\ propagated = <<>>
           /\ Len(processing_result) = 1
           /\ ~processing_result[1].success
           /\ NoClientCall

\* C2: the missing file is met by the constructor, whose exception reaches
\* the caller; no ProcessingResult exists
C2_MissingFileRaises ==
    /\ ~matrix_file.exists
    /\ pstage = "raised"
    /\ propagated # <<>>
    /\ processing_result = <<>>

\* C3: process never raises: every exception that leaves a stage of process
\* (parse, matcher construction, client construction, session close) ends in
\* a returned ProcessingResult with success = false whose errors list holds
\* exactly one element, the message of that exception; the only exception
\* that reaches the caller is the one of the constructor.
C3_ProcessNeverRaises ==
    /\ (propagated # <<>>) => (pstage = "raised" /\ caught = <<>>)
    /\ (pstage = "returned") => Len(processing_result) = 1
    /\ (caught # <<>>)
        => /\ pstage = "returned"
           /\ Len(processing_result) = 1
           /\ ~processing_result[1].success
           /\ processing_result[1].errors = <<ProcessError(caught[1])>>

\* C3 witness: the session close fails after a build that recorded errors of
\* its own; the result holds the close error alone
C3_Witness ==
    /\ pstage = "returned"
    /\ caught = <<"ClientError: session close failed">>
    /\ result.errors # <<>>
    /\ rel_calls # <<>>
    /\ Len(processing_result[1].errors) = 1
    /\ ~processing_result[1].success

\* The list values of the rows: row, list field, position
ListValues(rows) ==
    {v \in (DOMAIN rows) \X (DOMAIN RelationshipOrder) \X (1..MaxRawRows) :
        v[3] <= Len(rows[v[1]][RelationshipOrder[v[2]].field])}

\* The (entity type, normalized key) pairs named by the rows
NamedEntities(rows) ==
    {<<"Product", get_normalized_key(rows[i].product_name)>> :
        i \in DOMAIN rows}
    \cup {<<RelationshipOrder[v[2]].type,
            get_normalized_key(rows[v[1]][RelationshipOrder[v[2]].field][v[3]])>> :
              v \in ListValues(rows)}

\* C16: with dry_run set, process invokes no method of the graph-store
\* client (the client is not constructed), and the result of the dry-run
\* branch has entities_created = the number of unique entities of the
\* extraction and relationships_created = the sum of the lengths of the six
\* list fields over all rows, both non-zero whenever a product has a list
\* value.
C16_DryRunEstimates ==
    config.dry_run =>
        /\ NoClientCall
        /\ (pstage = "returned" /\ caught = <<>>) =>
            \A r \in {processing_result[1]} :
                /\ r.entities_created = extraction_result[1].entity_count
                /\ r.entities_created = Cardinality(NamedEntities(prows))
                /\ r.relationships_created = Cardinality(ListValues(prows))
                /\ ListValues(prows) # {} =>
                       r.entities_created > 0 /\ r.relationships_created > 0

\* C16 witness: a dry run without API configuration returns the estimates
\* for two products with three list values, two of which name one surface
C16_Witness ==
    /\ config.dry_run /\ ~config.api_configured
    /\ pstage = "returned"
    /\ caught = <<>>
    /\ Len(prows) = 2
    /\ processing_result[1].success
    /\ processing_result[1].relationships_created = 3
    /\ processing_result[1].entities_created = 4
    /\ client = "none"

\* The counts of the dry-run branch for a row list
DryRunEstimate(rows) ==
    [entities_created |-> extract_entities(rows).entity_count,
     relationships_created |-> count_relationships(rows)]

\* No client call of the run failed: every upsert_entity call returned an
\* id, every create_relationship call returned, and nothing was caught by
\* process (the client was built and its session closed)
NoClientCallFailed ==
    /\ caught = <<>>
    /\ \A i \in DOMAIN resolutions :
           resolutions[i].via = "upsert" => resolutions[i].outcome \in Ids
    /\ \A i \in DOMAIN rel_calls : rel_calls[i].ok

\* C30: the dry-run estimate agrees with a real run.  A process run that
\* returns after step 5 reports the dry-run counts of its rows when it is a
\* dry run, and also when it is a run with the builder (a new builder, its
\* cache empty) in which no client call failed.
C30_DryRunAgreesWithRealRun ==
    (pstage = "returned" /\ caught = <<>>) =>
        \A est \in {DryRunEstimate(prows)} : \A r \in {processing_result[1]} :
            (config.dry_run \/ NoClientCallFailed) =>
                /\ r.entities_created = est.entities_created
                /\ r.relationships_created = est.relationships_created

\* C30 witness: a run with the builder in which no client call failed, for
\* two products with three list values, two of which name one surface that
\* the second row gets from the builder's cache
C30_Witness ==
    /\ ~config.dry_run
    /\ pstage = "returned"
    /\ NoClientCallFailed
    /\ Len(prows) = 2
    /\ stats.entities_from_cache = 1
    /\ processing_result[1].entities_created = 4
    /\ processing_result[1].relationships_created = 3
    /\ processing_result[1].success

\* An upsert_entity call that returns None raises nothing, but the row that
\* needs the id fails: such a run reports fewer relationships than the dry
\* run
C30_NoneIdFallsShort ==
    /\ ~config.dry_run
    /\ pstage = "returned"
    /\ caught = <<>>
    /\ \A i \in DOMAIN resolutions : resolutions[i].outcome # Raise
    /\ \A i \in DOMAIN rel_calls : rel_calls[i].ok
    /\ processing_result[1].relationships_created
           < count_relationships(prows)

\* C17: in every ProcessingResult returned by process, success is true if
\* and only if errors is empty; when the builder has returned and process
\* returns after it, the per-row and per-relationship errors of the builder
\* are the errors of the result, in order, and the counts of the run are
\* reported with them.
C17_SuccessIffNoErrors ==
    pstage = "returned" =>
        /\ Len(processing_result) = 1
        /\ \A r \in {processing_result[1]} :
            /\ r.success <=> (r.errors = <<>>)
            /\ (caught = <<>> /\ ~config.dry_run) =>
                /\ r.errors = result.errors
                /\ Len(r.errors)
                     = Cardinality(FailedRows) + Len(rel_calls)
                       - Cardinality(SucceededCalls)
                /\ r.entities_created = stats.entities_created
                /\ r.relationships_created = Cardinality(SucceededCalls)
                /\ r.products_matched =
                     (IF match_report = <<>> THEN 0
                      ELSE Len(match_report[1].matched))
                /\ r.products_unmatched =
                     (IF match_report = <<>> THEN 0
                      ELSE Len(match_report[1].unmatched))

\* C17 witness: a run whose builder recorded a row error and a relationship
\* error returns both, with success false and the counts of what was made
C17_Witness ==
    /\ pstage = "returned"
    /\ caught = <<>>
    /\ ~processing_result[1].success
    /\ Len(processing_result[1].errors) = 2
    /\ IsProductError(processing_result[1].errors[1])
    /\ IsRelationshipError(processing_result[1].errors[2])
    /\ processing_result[1].entities_created > 0
    /\ processing_result[1].relationships_created > 0
    /\ processing_result[1].products_matched > 0

\* The scraped-products path is configured and the file is missing,
\* unreadable (no JSON) or of an unexpected shape
ScrapedLoadFails ==
    /\ config.scraped.path
    /\ \/ ~config.scraped.exists
       \/ ~config.scraped.json_ok
       \/ config.scraped.shape \notin {"list", "dict_products"}

\* The exceptions of the stages that do not read the scraped products
OtherStageErrors ==
    {"MatrixParseError: Failed to load file",
     "MatrixParseError: Unsupported file type",
     "MatrixParseError: Could not find header row",
     "MatrixParseError: Missing required 'Product' column",
     "ValueError: Memento API URL is required",
     "ClientError: session close failed"}

\* C18: when a scraped-products path is configured but the file is missing,
\* unreadable or of an unexpected shape, process does not fail for it: no
\* matcher is built and no report made, the result has products_matched =
\* products_unmatched = 0 and no error for it, and extraction and
\* relationship building run on the parsed rows.  In every run the
\* extraction and the builder work on the parsed rows alone, whatever the
\* match report is.
C18_ScrapedLoadFailureNotFatal ==
    /\ ScrapedLoadFails =>
        /\ mpc = "idle" /\ match_report = <<>>
        /\ caught # <<>> => caught[1] \in OtherStageErrors
        /\ pstage = "returned" =>
            /\ processing_result[1].products_matched = 0
            /\ processing_result[1].products_unmatched = 0
            /\ caught = <<>> =>
                /\ extraction_result # <<>>
                /\ processing_result[1].errors =
                       (IF config.dry_run THEN <<>> ELSE result.errors)
                /\ ~config.dry_run => bpc = "done"
    /\ pstage = "extracted" => extraction_result = <<extract_entities(prows)>>
    /\ pstage = "building" => brows = prows
    /\ (pstage = "returned" /\ client # "none") => brows = prows

\* C18 witness: the scraped file holds JSON of another shape; the run
\* matches nothing, builds the relationships of two products and succeeds
C18_Witness ==
    /\ config.scraped.path /\ config.scraped.exists /\ config.scraped.json_ok
    /\ config.scraped.shape = "other"
    /\ ~config.dry_run
    /\ pstage = "returned"
    /\ processing_result[1].success
    /\ processing_result[1].products_matched = 0
    /\ processing_result[1].products_unmatched = 0
    /\ processing_result[1].relationships_created = 3
    /\ Len(prows) = 2

-----------------------------------------------------------------------------
(* MementoClient: _request, create_entity, get_entity_by_name,              *)
(* upsert_entity.  An entity id is <<n>>, None is <<>>.  The graph store    *)
(* keeps every entity it was asked to create; entity n of the store has the *)
(* id <<n>>, and a search returns the entities of the key in that order.    *)

MaxUpserts == 3

\* self.max_retries = 3
max_retries == 3

\* self.retry_delay = 1.0
retry_delay == 1

\* A variant of the wait below that sleeps after every failed attempt
wait_after_every_attempt(attempt_) == <<retry_delay * (attempt_ + 1)>>

\* if attempt < self.max_retries - 1: await asyncio.sleep(self.retry_delay *
\* (attempt + 1)): the delays slept after attempt number attempt_ failed
wait_before_retry(attempt_) ==
    IF attempt_ < max_retries - 1 THEN <<retry_delay * (attempt_ + 1)>>
    ELSE <<>>

\* MementoAPIError(message, status_code); status_code <<>> is None
MementoAPIError(status_code) ==
    [type |-> "MementoAPIError", status_code |-> status_code]

\* MementoConnectionError(message, url)
MementoConnectionError ==
    [type |-> "MementoConnectionError", status_code |-> <<>>]

\* _get_cache_key: the f-string is one-to-one on the members of EntityType
get_cache_key(entity_type, normalized_name) == <<entity_type, normalized_name>>

\* The entity of the upsert_entity calls of the model
ClientKeys == {get_cache_key("Surface", LowerStr(StrVinyl))}

\* What one attempt of _request meets: a response with a status and a body
\* (JSON with the expected fields, JSON without an id, no JSON content
\* type), a ClientError of aiohttp, or asyncio.TimeoutError of the total
\* timeout.  processed: the store has carried out the request.
Response(status, body) ==
    [kind |-> "response", status |-> status, body |-> body,
     processed |-> status < 400]

Failure(kind, processed) ==
    [kind |-> kind, status |-> 0, body |-> "none", processed |-> processed]

ErrorStatuses == {404, 500}

SearchOutcomes ==
    {Response(200, "json"), Response(200, "not_json")}
    \cup {Response(status, "json") : status \in ErrorStatuses}
    \cup {Failure("ClientError", FALSE), Failure("TimeoutError", FALSE)}

CreateOutcomes ==
    {Response(201, "json"), Response(201, "json_no_id"),
     Response(500, "json")}
    \cup {Failure("ClientError", processed) : processed \in BOOLEAN}

\* The attempt returns from _request (a status below 400 and a body that
\* response.json() reads)
AttemptReturns(outcome) ==
    /\ outcome.kind = "response"
    /\ outcome.status < 400
    /\ outcome.body \in {"json", "json_no_id"}

\* The except clauses of _request: last_error for an attempt that does not
\* return.  The MementoAPIError raised for a status >= 400 is no
\* ClientResponseError and no ClientError, so `except Exception` wraps it in
\* a MementoAPIError without status_code; response.json() raises
\* ContentTypeError, a ClientResponseError, for a body without JSON content
\* type.
request_except(outcome) ==
    IF outcome.kind = "response" /\ outcome.status >= 400
    THEN MementoAPIError(<<>>)
    ELSE IF outcome.kind = "response"
    THEN MementoAPIError(<<outcome.status>>)
    ELSE IF outcome.kind = "ClientError" THEN MementoConnectionError
    ELSE MementoAPIError(<<>>)

\* The ids of the entities the store holds for a key, in creation order
EntitiesOf(entities_, key) ==
    SelectSeq([n \in DOMAIN entities_ |->
                  IF entities_[n] = key THEN <<n>> ELSE <<>>],
              LAMBDA id : id # <<>>)

\* A variant of the cache write below that stores nothing
cache_nothing(cache, key, entity_id) == cache

\* if entity_id: self._entity_cache[cache_key] = entity_id
cache_entity(cache, key, entity_id) ==
    IF entity_id # <<>>
    THEN [k \in DOMAIN cache \cup {key} |->
             IF k = key THEN entity_id ELSE cache[k]]
    ELSE cache

\* get_entity_by_name, except MementoAPIError: None for the status 404,
\* otherwise the error is raised again; a MementoConnectionError passes
SearchGivesNone(e) ==
    e.type = "MementoAPIError" /\ e.status_code = <<404>>

RequestEvent(method, key) == [e |-> "request", method |-> method, key |-> key]

ReturnEvent(key, entity_id) == [e |-> "returned", key |-> key, id |-> entity_id]

RaiseEvent(key, error) == [e |-> "raised", key |-> key, error |-> error]

\* A _request that has ended: what its attempts met, the number of
\* attempts, what the last one met, the delays slept, and the error raised
EndedRequest(method, key, outcomes, last, slept, raised) ==
    [method |-> method, key |-> key, attempts |-> outcomes,
     count |-> attempt + 1, last |-> last, waits |-> slept, raised |-> raised]

\* After MementoClient(...), with an empty store
ClientStart ==
    /\ entity_cache = <<>>
    /\ store = <<>>
    /\ ckey = <<>>
    /\ cstage = "idle"
    /\ attempt = 0
    /\ attempts = {}
    /\ last_error = <<>>
    /\ request = <<>>
    /\ waits = <<>>
    /\ tasks = <<>>
    /\ events = <<>>

\* upsert_entity up to its first request: the cached id is returned, or
\* get_entity_by_name starts its search request
UpsertEntity ==
    /\ cstage = "idle"
    /\ Cardinality({i \in DOMAIN events : events[i].e # "request"}) < MaxUpserts
    /\ \E key \in ClientKeys :
        IF key \in DOMAIN entity_cache
        THEN /\ events' = Append(events, ReturnEvent(key, entity_cache[key]))
             /\ UNCHANGED <<ckey, cstage, attempt, attempts, waits, last_error>>
        ELSE /\ ckey' = key
             /\ cstage' = "search"
             /\ attempt' = 0
             /\ attempts' = {}
             /\ waits' = <<>>
             /\ last_error' = <<>>
             /\ events' = Append(events, RequestEvent("GET", key))
    /\ UNCHANGED <<entity_cache, store, request, tasks>>
    /\ UNCHANGED <<parserVars, normVars, extVars, buildVars, matchVars,
                   procVars>>

\* upsert_entity after a _request has ended without the call going on to
\* another request: the call returns or raises
UpsertEnds(event) ==
    /\ events' = Append(events, event)
    /\ cstage' = "idle"
    /\ ckey' = <<>>
    /\ attempt' = 0
    /\ attempts' = {}
    /\ waits' = <<>>
    /\ last_error' = <<>>

\* upsert_entity goes on from the search to create_entity
UpsertCreates ==
    /\ events' = Append(events, RequestEvent("POST", ckey))
    /\ cstage' = "create"
    /\ attempt' = 0
    /\ attempts' = {}
    /\ waits' = <<>>
    /\ last_error' = <<>>
    /\ UNCHANGED <<ckey, entity_cache>>

\* One attempt of the search request of get_entity_by_name, and what
\* follows when _request ends with it
SearchAttempt ==
    /\ cstage = "search"
    /\ \E outcome \in SearchOutcomes :
       \E found \in {EntitiesOf(store, ckey)} :
       \E error \in {request_except(outcome)} :
        IF AttemptReturns(outcome)
        THEN /\ request' = <<EndedRequest("GET", ckey,
                                attempts \cup {outcome}, outcome, waits,
                                <<>>)>>
             /\ IF found # <<>>
                THEN /\ entity_cache' = cache_entity(entity_cache, ckey,
                                                     found[1])
                     /\ UpsertEnds(ReturnEvent(ckey, found[1]))
                ELSE UpsertCreates
        ELSE IF attempt + 1 < max_retries
        THEN /\ attempt' = attempt + 1
             /\ attempts' = attempts \cup {outcome}
             /\ last_error' = <<error>>
             /\ waits' = waits \o wait_before_retry(attempt)
             /\ UNCHANGED <<entity_cache, ckey, cstage, request, events>>
        ELSE /\ request' = <<EndedRequest("GET", ckey,
                                attempts \cup {outcome}, outcome,
                                waits \o wait_before_retry(attempt),
                                <<error>>)>>
             /\ IF SearchGivesNone(error)
                THEN UpsertCreates
                ELSE /\ UpsertEnds(RaiseEvent(ckey, error))
                     /\ UNCHANGED entity_cache
    /\ UNCHANGED <<store, tasks>>
    /\ UNCHANGED <<parserVars, normVars, extVars, buildVars, matchVars,
                   procVars>>

\* One attempt of the POST request of create_entity, and what follows when
\* _request ends with it: entity_id = response.get("id") or
\* response.get("entity_id") is cached if it is truthy, and returned
CreateAttempt ==
    /\ cstage = "create"
    /\ \E outcome \in CreateOutcomes :
       \E stored \in {IF outcome.processed THEN Append(store, ckey)
                      ELSE store} :
       \E entity_id \in {IF outcome.body = "json" THEN <<Len(stored)>>
                         ELSE <<>>} :
       \E error \in {request_except(outcome)} :
        /\ store' = stored
        /\ IF AttemptReturns(outcome)
           THEN /\ request' = <<EndedRequest("POST", ckey,
                                   attempts \cup {outcome}, outcome, waits,
                                   <<>>)>>
                /\ entity_cache' = cache_entity(entity_cache, ckey, entity_id)
                /\ UpsertEnds(ReturnEvent(ckey, entity_id))
           ELSE IF attempt + 1 < max_retries
           THEN /\ attempt' = attempt + 1
                /\ attempts' = attempts \cup {outcome}
                /\ last_error' = <<error>>
                /\ waits' = waits \o wait_before_retry(attempt)
                /\ UNCHANGED <<entity_cache, ckey, cstage, request, events>>
           ELSE /\ request' = <<EndedRequest("POST", ckey,
                                   attempts \cup {outcome}, outcome,
                                   waits \o wait_before_retry(attempt),
                                   <<error>>)>>
                /\ UpsertEnds(RaiseEvent(ckey, error))
                /\ UNCHANGED entity_cache
    /\ UNCHANGED tasks
    /\ UNCHANGED <<parserVars, normVars, extVars, buildVars, matchVars,
                   procVars>>

(* Properties of the client *)

\* The events of one cache key
Requests(key, method) ==
    {i \in DOMAIN events :
        events[i].e = "request" /\ events[i].key = key
            /\ events[i].method = method}

Returns(key) ==
    {i \in DOMAIN events : events[i].e = "returned" /\ events[i].key = key}

IdReturns(key) == {i \in Returns(key) : events[i].id # <<>>}

AllAttemptsMet(outcomes) ==
    /\ request # <<>>
    /\ request[1].attempts # {}
    /\ request[1].attempts \subseteq outcomes

\* C20: when every attempt of a request receives an HTTP response with a
\* status >= 400, _request raises, after the retries, a MementoAPIError
\* whose status_code is that status; when every attempt fails at connection
\* level (a ClientError of aiohttp), it raises a MementoConnectionError.
C20_ErrorsToldApart ==
    /\ \A status \in ErrorStatuses :
         AllAttemptsMet({Response(status, "json")})
            => request[1].raised = <<MementoAPIError(<<status>>)>>
    /\ AllAttemptsMet({Failure("ClientError", processed) :
                          processed \in BOOLEAN})
            => request[1].raised = <<MementoConnectionError>>

\* C20, the connection-level half, which holds: ClientErrors on every
\* attempt end in a MementoConnectionError
C20_ConnectionErrorRaised ==
    AllAttemptsMet({Failure("ClientError", processed) : processed \in BOOLEAN})
        => request[1].raised = <<MementoConnectionError>>

\* C20, the case that fails: every attempt of the search was answered with
\* 404, and _request raised a MementoAPIError whose status_code is None
C20_StatusLost ==
    /\ AllAttemptsMet({Response(404, "json")})
    /\ request[1].method = "GET"
    /\ request[1].raised = <<MementoAPIError(<<>>)>>
    /\ events[Len(events)].e = "raised"

\* The step that ends the search request of get_entity_by_name with an
\* error, every attempt having met one of outcomes
SearchEndsAfter(outcomes) ==
    /\ cstage = "search"
    /\ cstage' # "search"
    /\ request'[1].raised # <<>>
    /\ request'[1].attempts \subseteq outcomes

\* C26: when the search request of get_entity_by_name is answered with HTTP
\* 404, get_entity_by_name returns None and upsert_entity goes on to
\* create_entity; when it is answered with another error status,
\* upsert_entity raises a MementoAPIError.
C26_NotFoundGivesNone ==
    [][/\ SearchEndsAfter({Response(404, "json")}) =>
            /\ cstage' = "create"
            /\ events' = Append(events, RequestEvent("POST", ckey))
       /\ SearchEndsAfter({Response(500, "json")}) =>
            /\ cstage' = "idle"
            /\ events'[Len(events')].e = "raised"
            /\ events'[Len(events')].error.type = "MementoAPIError"]_vars

\* C26, the half that holds: a search answered with the status 500 on every
\* attempt makes upsert_entity raise a MementoAPIError
C26_OtherErrorsRaise ==
    [][SearchEndsAfter({Response(500, "json")}) =>
            /\ cstage' = "idle"
            /\ events'[Len(events')].e = "raised"
            /\ events'[Len(events')].error.type = "MementoAPIError"]_vars

\* C26, the case that fails: the first upsert_entity call of a client met
\* 404 on every attempt of its search and raised; no create-entity request
\* was sent
C26_NotFoundRaises ==
    /\ cstage = "idle"
    /\ Len(events) = 2
    /\ request # <<>>
    /\ request[1].method = "GET"
    /\ request[1].attempts = {Response(404, "json")}
    /\ events[1] = RequestEvent("GET", request[1].key)
    /\ events[2] = RaiseEvent(request[1].key, MementoAPIError(<<>>))
    /\ store = <<>>

\* The delays of the waits before the retries of a request of n attempts
RetryDelays(n) == [k \in 1..(n - 1) |-> retry_delay * k]

\* C27, the state part: a running _request has made fewer than max_retries
\* attempts and has waited once after each; a _request that returned made at
\* most max_retries attempts, of which the last and no other was successful;
\* a _request that raised made max_retries attempts, none successful, and
\* raised the error of the last one; in both cases it has waited before
\* each retry and not after its last attempt.
RequestBounded ==
    /\ cstage \in {"search", "create"} =>
         /\ attempt < max_retries
         /\ waits = RetryDelays(attempt + 1)
    /\ request # <<>> =>
         \A r \in {request[1]} :
         /\ r.count \in 1..max_retries
         /\ r.waits = RetryDelays(r.count)
         /\ r.last \in r.attempts
         /\ r.raised = <<>> =>
              /\ AttemptReturns(r.last)
              /\ \A outcome \in r.attempts \ {r.last} :
                   ~AttemptReturns(outcome)
         /\ r.raised # <<>> =>
              /\ r.count = max_retries
              /\ \A outcome \in r.attempts : ~AttemptReturns(outcome)
              /\ r.raised = <<request_except(r.last)>>

\* C27: every _request call ends, after at most max_retries attempts: with
\* the response of its first successful attempt, or, after the last attempt
\* and without a wait after it, with the error of that attempt.
C27_RequestTerminates ==
    /\ []RequestBounded
    /\ (cstage = "search") ~> (cstage # "search")
    /\ (cstage = "create") ~> (cstage = "idle")

\* C27 witness: a _request that raised after max_retries attempts that met
\* different things, having waited 1 and 2 before the retries
C27_Witness ==
    /\ request # <<>>
    /\ request[1].raised = <<MementoConnectionError>>
    /\ request[1].count = max_retries
    /\ Cardinality(request[1].attempts) = max_retries
    /\ request[1].waits = <<1, 2>>
    /\ cstage = "idle"

\* A _request that returned at its second attempt
C27_ReturnedAtRetry ==
    /\ request # <<>>
    /\ request[1].raised = <<>>
    /\ request[1].count = 2
    /\ request[1].waits = <<1>>

-----------------------------------------------------------------------------
(* Concurrent resolution: several tasks run _get_or_create_entity on one    *)
(* builder and one client.  A task runs without giving way from one await   *)
(* that suspends to the next; the awaits that suspend are those of          *)
(* _request, so a task gives way between sending a request and the end of   *)
(* that request.  A _request is taken with its retries as one wait, and the *)
(* store answers it when it ends.                                           *)

MaxTasks == 2

Tasks == 1..MaxTasks

RaceKeys ==
    {get_cache_key("Surface", LowerStr(StrVinyl)),
     get_cache_key("Surface", LowerStr(StrTimber))}

\* A task: where it is, the key it resolves, the id it returned, and whether
\* its search found nothing
Task(pc, key, entity_id, missed) ==
    [pc |-> pc, key |-> key, id |-> entity_id, missed |-> missed]

\* self._entity_id_cache[cache_key] = entity_id
store_entity_id(cache, cache_key, entity_id) ==
    [k \in DOMAIN cache \cup {cache_key} |->
        IF k = cache_key THEN entity_id ELSE cache[k]]

\* What the tasks leave alone
RaceFrame ==
    /\ UNCHANGED <<ckey, cstage, attempt, attempts, waits, last_error, request>>
    /\ UNCHANGED <<brows, bi, bpending, product_id, relationships,
                   relationships_to_create, result, resolutions, rel_calls,
                   bpc>>
    /\ UNCHANGED <<parserVars, normVars, extVars, matchVars, procVars>>

\* The builder and the client are new, no task has started
RaceStart ==
    /\ entity_cache = <<>>
    /\ store = <<>>
    /\ ckey = <<>>
    /\ cstage = "off"
    /\ attempt = 0
    /\ attempts = {}
    /\ last_error = <<>>
    /\ request = <<>>
    /\ waits = <<>>
    /\ tasks = [t \in Tasks |-> Task("new", <<>>, <<>>, FALSE)]
    /\ events = <<>>

\* _get_or_create_entity after upsert_entity has returned: the id is stored
\* in the local cache and counted
RaceReturns(t, entity_id, missed) ==
    /\ entity_id_cache' = store_entity_id(entity_id_cache, tasks[t].key,
                                          entity_id)
    /\ stats' = [stats EXCEPT !.entities_created = @ + 1]
    /\ tasks' = [tasks EXCEPT ![t] = Task("done", @.key, entity_id, missed)]

\* A variant of the step below in which a task whose search found nothing
\* sends no create request while another task's create request for the key
\* is in flight
RaceCreatesOnce(t) ==
    /\ IF \E u \in Tasks \ {t} :
            tasks[u].pc = "create" /\ tasks[u].key = tasks[t].key
       THEN /\ tasks' = [tasks EXCEPT ![t] = Task("join", @.key, <<>>, TRUE)]
            /\ UNCHANGED events
       ELSE /\ events' = Append(events, RequestEvent("POST", tasks[t].key))
            /\ tasks' = [tasks EXCEPT ![t] = Task("create", @.key, <<>>, TRUE)]
    /\ UNCHANGED <<entity_cache, entity_id_cache, stats>>

\* upsert_entity goes on from a search that found nothing to create_entity,
\* which sends its POST request
RaceCreates(t) ==
    /\ events' = Append(events, RequestEvent("POST", tasks[t].key))
    /\ tasks' = [tasks EXCEPT ![t] = Task("create", @.key, <<>>, TRUE)]
    /\ UNCHANGED <<entity_cache, entity_id_cache, stats>>

\* _get_or_create_entity up to the first await that suspends: a hit in the
\* local cache, a hit in the client's cache, or the search request is sent
RaceResolve(t) ==
    /\ tasks[t].pc = "new"
    /\ \E key \in RaceKeys :
        IF key \in DOMAIN entity_id_cache
        THEN /\ stats' = [stats EXCEPT !.entities_from_cache = @ + 1]
             /\ tasks' = [tasks EXCEPT ![t] =
                             Task("done", key, entity_id_cache[key], FALSE)]
             /\ UNCHANGED <<entity_id_cache, events>>
        ELSE IF key \in DOMAIN entity_cache
        THEN /\ entity_id_cache' = store_entity_id(entity_id_cache, key,
                                                   entity_cache[key])
             /\ stats' = [stats EXCEPT !.entities_created = @ + 1]
             /\ tasks' = [tasks EXCEPT ![t] =
                             Task("done", key, entity_cache[key], FALSE)]
             /\ UNCHANGED events
        ELSE /\ events' = Append(events, RequestEvent("GET", key))
             /\ tasks' = [tasks EXCEPT ![t] = Task("search", key, <<>>, FALSE)]
             /\ UNCHANGED <<entity_id_cache, stats>>
    /\ UNCHANGED <<entity_cache, store>>
    /\ RaceFrame

\* The search request of a task ends: the entity found is cached and
\* returned, or the task goes on to create_entity, or the error is raised
RaceSearchEnds(t) ==
    /\ tasks[t].pc = "search"
    /\ \E outcome \in SearchOutcomes :
       \E found \in {EntitiesOf(store, tasks[t].key)} :
       \E error \in {request_except(outcome)} :
        IF AttemptReturns(outcome) /\ found # <<>>
        THEN /\ entity_cache' = cache_entity(entity_cache, tasks[t].key,
                                             found[1])
             /\ RaceReturns(t, found[1], FALSE)
             /\ UNCHANGED events
        ELSE IF AttemptReturns(outcome) \/ SearchGivesNone(error)
        THEN RaceCreates(t)
        ELSE /\ tasks' = [tasks EXCEPT ![t].pc = "failed"]
             /\ UNCHANGED <<entity_cache, entity_id_cache, stats, events>>
    /\ UNCHANGED store
    /\ RaceFrame

\* The POST request of a task ends: the id of the answer is cached if it is
\* truthy, and returned; or the error is raised
RaceCreateEnds(t) ==
    /\ tasks[t].pc = "create"
    /\ \E outcome \in CreateOutcomes :
       \E stored \in {IF outcome.processed THEN Append(store, tasks[t].key)
                      ELSE store} :
       \E entity_id \in {IF outcome.body = "json" THEN <<Len(stored)>>
                         ELSE <<>>} :
        /\ store' = stored
        /\ IF AttemptReturns(outcome)
           THEN /\ entity_cache' = cache_entity(entity_cache, tasks[t].key,
                                                entity_id)
                /\ RaceReturns(t, entity_id, TRUE)
           ELSE /\ tasks' = [tasks EXCEPT ![t].pc = "failed"]
                /\ UNCHANGED <<entity_cache, entity_id_cache, stats>>
    /\ UNCHANGED events
    /\ RaceFrame

(* Properties of concurrent resolution *)

\* The tasks whose search for the key found nothing
Missed(key) == {t \in Tasks : tasks[t].key = key /\ tasks[t].missed}

\* C28: creation is not single-flight.  Every task whose search for a key
\* found nothing sends its own create-entity request for the key, whatever
\* the other tasks have in flight: the create-entity requests for a key are
\* as many as the tasks whose search missed, and the store holds at most
\* that many entities of the key.
C28_CreationNotSingleFlight ==
    \A key \in RaceKeys :
        /\ Cardinality(Requests(key, "POST")) = Cardinality(Missed(key))
        /\ \A t \in Missed(key) : tasks[t].pc \in {"create", "done", "failed"}
        /\ Len(EntitiesOf(store, key)) <= Cardinality(Missed(key))

\* Two tasks have resolved one key, the create-entity request was sent twice
\* for it, the store holds two entities of the key and the tasks returned
\* different ids
C28_Witness ==
    \E key \in RaceKeys :
        /\ Cardinality(Requests(key, "POST")) = 2
        /\ tasks[1].key = key /\ tasks[2].key = key
        /\ tasks[1].pc = "done" /\ tasks[2].pc = "done"
        /\ tasks[1].id # <<>> /\ tasks[2].id # <<>>
        /\ tasks[1].id # tasks[2].id
        /\ Len(EntitiesOf(store, key)) = 2
        /\ stats.entities_created = 2

-----------------------------------------------------------------------------
(* Specifications *)

ParserIdle ==
    /\ df = <<>>
    /\ products = <<>>
    /\ current_product = <<>>
    /\ ppc = "idle"

ExtIdle ==
    /\ erows = <<>>
    /\ epending = <<>>
    /\ ecalls = <<>>
    /\ entities = ExtractStart.entities
    /\ seen = ExtractStart.seen
    /\ duplicates_removed = 0
    /\ entity_count = 0
    /\ epc = "idle"

BuildIdle ==
    /\ brows = <<>>
    /\ bi = 0
    /\ bpending = <<>>
    /\ product_id = NoneId
    /\ relationships = <<>>
    /\ relationships_to_create = <<>>
    /\ entity_id_cache = <<>>
    /\ stats = [entities_created |-> 0, entities_from_cache |-> 0]
    /\ result = [entities_created |-> 0, entities_cached |-> 0,
                 relationships_created |-> 0, errors |-> <<>>]
    /\ resolutions = <<>>
    /\ rel_calls = <<>>
    /\ bpc = "idle"

MatchIdle ==
    /\ scraped_products = <<>>
    /\ match_threshold = Frac(0, 1)
    /\ rapidfuzz = FALSE
    /\ name_lookup = <<>>
    /\ normalized_lookup = <<>>
    /\ matrix_product_name = <<>>
    /\ match_result = <<>>
    /\ report_rows = <<>>
    /\ report_result = <<>>
    /\ mpc = "idle"

ClientIdle ==
    /\ entity_cache = <<>>
    /\ store = <<>>
    /\ ckey = <<>>
    /\ cstage = "off"
    /\ attempt = 0
    /\ attempts = {}
    /\ last_error = <<>>
    /\ request = <<>>
    /\ waits = <<>>
    /\ tasks = <<>>
    /\ events = <<>>

ProcIdle ==
    /\ matrix_file = GoodFile(".csv", <<>>)
    /\ config = [scraped |-> ScrapedFile(FALSE, FALSE, FALSE, "other", <<>>, TRUE),
                 api_configured |-> FALSE, dry_run |-> TRUE]
    /\ prows = <<>>
    /\ match_report = <<>>
    /\ extraction_result = <<>>
    /\ client = "none"
    /\ perrors = <<>>
    /\ caught = <<>>
    /\ propagated = <<>>
    /\ processing_result = <<>>
    /\ pstage = "idle"

\* The parser's row walk
ParserInit == ParserStart /\ NormIdle /\ ExtIdle /\ BuildIdle /\ MatchIdle
    /\ ProcIdle /\ ClientIdle

ParserNext == ParseRow \/ ParseReturn

SpecParser == ParserInit /\ [][ParserNext]_vars

\* normalize_name applied once and twice
NormInit == ParserIdle /\ NormStart /\ ExtIdle /\ BuildIdle /\ MatchIdle
    /\ ProcIdle /\ ClientIdle

NormNext == NormalizeOnce \/ NormalizeTwice

SpecNormalize == NormInit /\ [][NormNext]_vars

\* One extract_entities pass
ExtInit == ParserIdle /\ NormIdle /\ ExtStart /\ BuildIdle /\ MatchIdle
    /\ ProcIdle /\ ClientIdle

ExtNext == ExtractRow \/ ExtractValue \/ ExtractReturn

SpecExtract == ExtInit /\ [][ExtNext]_vars

\* One build_from_rows run of a new builder
BuildInit == ParserIdle /\ NormIdle /\ ExtIdle /\ BuildStart /\ MatchIdle
    /\ ProcIdle /\ ClientIdle

BuildNext ==
    BuildProduct \/ BuildValue \/ BuildCreateRelationship \/ BuildReturn

SpecBuild == BuildInit /\ [][BuildNext]_vars

\* One call of match or of get_match_report on a new matcher
MatchInit == ParserIdle /\ NormIdle /\ ExtIdle /\ BuildIdle /\ MatchStart
    /\ ProcIdle /\ ClientIdle

MatchNext == Match \/ GetMatchReport

SpecMatch == MatchInit /\ [][MatchNext]_vars

\* A MatrixProcessor is constructed and process runs once
ProcInit ==
    ParserIdle /\ NormIdle /\ ExtIdle /\ BuildIdle /\ MatchIdle /\ ProcStart
    /\ ClientIdle

ProcNext ==
    \/ Construct \/ ProcessParse \/ ProcessMatch \/ ProcessExtract
    \/ ProcessDryRun \/ ProcessOpenClient
    \/ BuildProduct \/ BuildValue \/ BuildCreateRelationship \/ BuildReturn
    \/ ProcessClose

SpecProcess == ProcInit /\ [][ProcNext]_vars

\* Some upsert_entity calls on a new client, one after the other
ClientInit ==
    ParserIdle /\ NormIdle /\ ExtIdle /\ BuildIdle /\ MatchIdle /\ ProcIdle
    /\ ClientStart

ClientNext == UpsertEntity \/ SearchAttempt \/ CreateAttempt

SpecClient == ClientInit /\ [][ClientNext]_vars

\* The same, each attempt of a running _request coming to an end: the
\* session's total timeout bounds an attempt and asyncio.sleep a wait
SpecClientFair ==
    /\ ClientInit
    /\ [][ClientNext]_vars
    /\ WF_vars(SearchAttempt)
    /\ WF_vars(CreateAttempt)


\* Tasks resolve entities concurrently through a new builder and client
RaceInit ==
    ParserIdle /\ NormIdle /\ ExtIdle /\ BuildIdle /\ MatchIdle /\ ProcIdle
    /\ RaceStart

RaceNext ==
    \E t \in Tasks :
        \/ RaceResolve(t)
        \/ RaceSearchEnds(t)
        \/ RaceCreateEnds(t)

SpecRace == RaceInit /\ [][RaceNext]_vars

=============================================================================
